---- MODULE Spec2Model ----
(***************************************************************************)
(* A model of Pulse (Clickshift-Founder/pulse): the Governor's approval    *)
(* pipeline and spending window, the HeartbeatEngine's cycle loop, the     *)
(* DCA strategy's rounds and the Orchestrator's registry, recall, sack and *)
(* capital distribution.                                                   *)
(*                                                                         *)
(* Amounts of SOL are integers in micro-SOL (1 SOL = 1000000); times are   *)
(* milliseconds as returned by Date.now().                                 *)
(***************************************************************************)
EXTENDS Integers, Sequences, FiniteSets, TLC

VARIABLES
    now,             \* Date.now()
    rules,           \* Governor.rules
    spendingWindow,  \* Governor.spendingWindow
    evals,           \* approveSwap / approveTransfer calls: position and locals
    nEvals,          \* number of evaluations started so far
    lastDecision,    \* the GovernorDecision most recently returned
    approvedLog,     \* history: the approvals, with time and window of commit
    nTicks,          \* history: number of clock advances
    dcaConfig,       \* DCAStrategy.config
    dcaState,        \* DCAStrategy.state and cronJob
    dcaRounds,       \* executeDCARound calls: position
    nRounds,         \* number of executeDCARound calls started so far
    walletOps,       \* history: the swaps the strategy's wallet signed and sent
    heartbeatFile,   \* the directives HEARTBEAT.md holds
    hb,              \* HeartbeatEngine: running, handle, cycleNumber, live timers
    hbCycles,        \* runCycle calls: position, locals and the cycle record
    published,       \* the thought types the last step handed to thoughtStream
    emitted,         \* the events the engine emitted in the last step
    agents,          \* Orchestrator.agents, in the order of Object.entries
    calls,           \* recallFunds, sackAgent, distributeCapital and sack route
                     \* calls: position, locals and, once returned, the result
    nCalls,          \* number of such calls started so far
    stream,          \* ThoughtStream: the history, thoughtCounter, the listeners
                     \* and the emit calls in progress
    trail,           \* TrailingStopStrategy: state, timers and checkAndAct calls
    factory,         \* AgentFactory: the agents spawned and the spawn calls
    fleet            \* every HeartbeatEngine built for an agent, and the
                     \* sackAgent call in flight

govVars == <<now, rules, spendingWindow, evals, nEvals, lastDecision, approvedLog, nTicks>>

dcaVars == <<dcaConfig, dcaState, dcaRounds, nRounds>>

hbVars == <<heartbeatFile, hb, hbCycles, published, emitted>>

orchVars == <<agents, calls, nCalls>>

vars == <<govVars, dcaVars, walletOps, hbVars, orchVars, stream, trail, factory, fleet>>

\* what the Governor's methods do not touch
otherThanGov == <<dcaVars, walletOps, hbVars, orchVars, stream, trail, factory, fleet>>

\* what the DCA strategy's methods do not touch
otherThanDCA == <<govVars, hbVars, orchVars, stream, trail, factory, fleet>>

\* what a HeartbeatEngine's methods do not touch
otherThanHB == <<govVars, dcaVars, walletOps, orchVars, stream, trail, factory, fleet>>

\* what the Orchestrator's methods do not touch
otherThanOrch == <<govVars, dcaVars, hbVars, walletOps, stream, trail, factory, fleet>>

\* what the ThoughtStream, a TrailingStopStrategy or the AgentFactory does
\* not touch
coreVars == <<govVars, dcaVars, walletOps, hbVars, orchVars>>

----------------------------------------------------------------------------
(* Bounds *)

MaxEvals == 3        \* evaluations of one Governor in one behaviour
MaxOverlap == 2      \* of them, evaluations that may overlap and span clock advances
MaxTicks == 2        \* clock advances in one behaviour
MaxRounds == 3       \* executeDCARound calls of one strategy in one behaviour
MaxCronTasks == 2    \* scheduled tasks of one strategy alive at a time
MaxCycles == 2       \* heartbeat cycles of one engine in one behaviour
MaxTimers == 2       \* interval timers of one engine alive at a time
MaxAgents == 2       \* entries of the Orchestrator's registry
MaxCalls == 1        \* asynchronous Orchestrator calls in one behaviour
MaxGateEvals == 1    \* evaluations of a Governor with rules of its own

----------------------------------------------------------------------------
(* Units and program constants *)

SOL == 1000000                      \* micro-SOL per SOL
DayMs == 86400000                   \* the 24 hour window of refreshSpendingWindow
QuoteFailedImpact == 999            \* simulateSwap's result when the quote fails

None == "none"                      \* null
Undefined == -1                     \* simulatedPriceImpact left out

BlacklistedMint == "11111111111111111111111111111112"
BonkMint == "BONK"

\* DEFAULT_RULES (no GOVERNOR_* environment overrides)
DEFAULT_RULES ==
    [ maxSingleTxSOL     |-> SOL \div 2,
      dailyLimitSOL      |-> 2 * SOL,
      maxPriceImpactPct  |-> 3,
      allowedTokens      |-> {},
      blacklistedTokens  |-> {BlacklistedMint},
      requireRugCheck    |-> TRUE,
      maxRugScore        |-> 700,
      maxPositionPct     |-> 25 ]

\* customRules handed to the constructor: none, or a lower daily limit
CustomRules ==
    { [dailyLimitSOL |-> 2 * SOL],
      [dailyLimitSOL |-> (15 * SOL) \div 100] }

\* updates handed to updateRules: Partial<GovernorRules>
RuleUpdates ==
    { [maxPriceImpactPct |-> 1, maxRugScore |-> 50, requireRugCheck |-> FALSE] }

\* { ...a, ...b }
Merge(a, b) == [k \in DOMAIN a |-> IF k \in DOMAIN b THEN b[k] ELSE a[k]]

\* customRules of a Governor with lists and limits of its own: none, an
\* allow-list that holds a deny-listed token, and wide limits
GateCustomRules ==
    { [dailyLimitSOL |-> 2 * SOL],
      [allowedTokens |-> {BonkMint, BlacklistedMint}],
      [maxSingleTxSOL |-> SOL, maxPositionPct |-> 100] }

\* the updates handed to its updateRules
GateRuleUpdates == RuleUpdates \cup { [maxRugScore |-> 0 - 1] }

\* the inputs of its evaluations: amounts below, at and above zero, a zero
\* balance, and tokens on both lists, on one and on none
GateAmounts == { 0 - SOL \div 10, 0, SOL \div 10, (8 * SOL) \div 10 }
GateBalances == { 0, SOL }
OtherMint == "WIF"
GateMints == { BonkMint, BlacklistedMint, OtherMint }

\* inputs of the evaluations
Amounts == { SOL \div 10, (8 * SOL) \div 10 }
Balances == { SOL }
Mints == { BonkMint }
Impacts == { 2, 4 }                 \* price impact in percent
RugScores == { 100, 900 }           \* RiskAssessment.score

----------------------------------------------------------------------------
(* Governor: pure parts *)

Check(name, passed) == [name |-> name, passed |-> passed]

\* CHECK 1
SingleTxCheck(r, amountSOL) ==
    Check("single_tx_limit", amountSOL <= r.maxSingleTxSOL)

\* CHECK 2 without its comparison
DailyLimitCheckOff(r, projected) ==
    Check("daily_limit", TRUE)

\* CHECK 2, after refreshSpendingWindow
DailyLimitCheck(r, projected) ==
    Check("daily_limit", projected <= r.dailyLimitSOL)

\* CHECK 3: (amountSOL / agentBalanceSOL) * 100 <= maxPositionPct in IEEE
\* arithmetic: x/0 is +Infinity, NaN or -Infinity by the sign of x, and a
\* comparison with NaN is false.
PositionPasses(r, amountSOL, agentBalanceSOL) ==
    IF agentBalanceSOL = 0
    THEN amountSOL < 0
    ELSE amountSOL * 100 <= r.maxPositionPct * agentBalanceSOL

PositionCheck(r, amountSOL, agentBalanceSOL) ==
    Check("position_size", PositionPasses(r, amountSOL, agentBalanceSOL))

\* CHECK 4 giving way to the allow-list
BlacklistCheckUnlessAllowed(r, outputMint) ==
    Check("blacklist", outputMint \notin r.blacklistedTokens \/ outputMint \in r.allowedTokens)

\* CHECK 4
BlacklistCheck(r, outputMint) ==
    Check("blacklist", outputMint \notin r.blacklistedTokens)

\* CHECK 5 without the test of the list's length
WhitelistChecksAlways(r, outputMint) ==
    << Check("whitelist", outputMint \in r.allowedTokens) >>

\* CHECK 5, a sequence of zero or one check
WhitelistChecks(r, outputMint) ==
    IF r.allowedTokens # {}
    THEN << Check("whitelist", outputMint \in r.allowedTokens) >>
    ELSE << >>

\* CHECK 6
PriceImpactCheck(r, resolvedPriceImpact) ==
    Check("price_impact", resolvedPriceImpact <= r.maxPriceImpactPct)

\* CHECK 7
RugScoreCheck(r, score) ==
    Check("rug_score", score <= r.maxRugScore)

RugSkipped == Check("rug_score", TRUE)

\* the score of the assessment checkToken returns when the oracle cannot be
\* reached
FallbackScore == 0

\* checks.filter((c) => !c.passed).map((c) => c.name)
RECURSIVE FailedNames(_)
FailedNames(checks) ==
    IF checks = << >> THEN << >>
    ELSE IF Head(checks).passed THEN FailedNames(Tail(checks))
         ELSE << Head(checks).name >> \o FailedNames(Tail(checks))

AllPassed(checks) == \A i \in DOMAIN checks : checks[i].passed

\* refreshSpendingWindow with > in place of >=
RefreshedWindowLate(w, t) ==
    IF t - w.windowStart > DayMs
    THEN [windowStart |-> t, totalSpent |-> 0]
    ELSE w

\* refreshSpendingWindow
RefreshedWindow(w, t) ==
    IF t - w.windowStart >= DayMs
    THEN [windowStart |-> t, totalSpent |-> 0]
    ELSE w

\* the commit with = in place of +=
CommittedAssigns(w, amountSOL) ==
    [w EXCEPT !.totalSpent = amountSOL]

\* this.spendingWindow.totalSpent += amountSOL
Committed(w, amountSOL) ==
    [w EXCEPT !.totalSpent = @ + amountSOL]

----------------------------------------------------------------------------
(* Governor: state *)

Window(start, total) == [windowStart |-> start, totalSpent |-> total]

\* an evaluation that is not in flight; of one in flight, rules is the rule
\* set at its entry and assessment is "fallback" once checkToken has given it
\* the fallback RiskAssessment
IdleEval(pc) ==
    [ pc |-> pc, kind |-> None, amountSOL |-> 0, checks |-> << >>,
      projected |-> 0, pre |-> Window(0, 0),
      outputMint |-> None, agentBalanceSOL |-> 0,
      rules |-> DEFAULT_RULES, assessment |-> None ]

NoDecision ==
    [ call |-> 0, kind |-> None, amountSOL |-> 0, approved |-> FALSE,
      reason |-> << >>, checks |-> << >>, projected |-> 0,
      pre |-> Window(0, 0), post |-> Window(0, 0),
      outputMint |-> None, agentBalanceSOL |-> 0, assessment |-> None ]

\* new Governor(agentId, connection, customRules)
NewGovernor(customRules) ==
    /\ now = 0
    /\ nTicks = 0
    /\ rules = Merge(DEFAULT_RULES, customRules)
    /\ spendingWindow = Window(now, 0)
    /\ evals = [i \in 1..MaxEvals |-> IdleEval("new")]
    /\ nEvals = 0
    /\ lastDecision = NoDecision
    /\ approvedLog = << >>

GovInit == \E c \in CustomRules : NewGovernor(c)

EvalIds == 1..MaxEvals

InFlight == { i \in EvalIds : evals[i].pc \in {"quote", "rug"} }

----------------------------------------------------------------------------
(* Governor: the steps of an evaluation *)

\* the verdict with the commit outside the if (approved)
VerdictCommitsAlways(i, w, e, checks, reasonYes, reasonNo) ==
    LET approved == AllPassed(checks)
        post == Committed(w, e.amountSOL)
    IN  /\ spendingWindow' = post
        /\ lastDecision' =
             [ call |-> i, kind |-> e.kind, amountSOL |-> e.amountSOL,
               approved |-> approved,
               reason |-> IF approved THEN reasonYes ELSE reasonNo,
               checks |-> checks, projected |-> e.projected,
               pre |-> e.pre, post |-> post,
               outputMint |-> e.outputMint,
               agentBalanceSOL |-> e.agentBalanceSOL,
               assessment |-> e.assessment ]
        /\ approvedLog' =
             IF approved
             THEN Append(approvedLog, [t |-> now, amt |-> e.amountSOL, win |-> w.windowStart])
             ELSE approvedLog
        /\ evals' = [evals EXCEPT ![i] = IdleEval("done")]

\* VERDICT of approveSwap and approveTransfer and the return of the
\* decision; e is the call's record, checks the complete check list.  No
\* await separates the verdict from the commit.
Verdict(i, w, e, checks, reasonYes, reasonNo) ==
    LET approved == AllPassed(checks)
        post == IF approved THEN Committed(w, e.amountSOL) ELSE w
    IN  /\ spendingWindow' = post
        /\ lastDecision' =
             [ call |-> i, kind |-> e.kind, amountSOL |-> e.amountSOL,
               approved |-> approved,
               reason |-> IF approved THEN reasonYes ELSE reasonNo,
               checks |-> checks, projected |-> e.projected,
               pre |-> e.pre, post |-> post,
               outputMint |-> e.outputMint,
               agentBalanceSOL |-> e.agentBalanceSOL,
               assessment |-> e.assessment ]
        /\ approvedLog' =
             IF approved
             THEN Append(approvedLog, [t |-> now, amt |-> e.amountSOL, win |-> w.windowStart])
             ELSE approvedLog
        /\ evals' = [evals EXCEPT ![i] = IdleEval("done")]

SwapVerdict(i, w, e, checks) ==
    Verdict(i, w, e, checks,
            << "All safety checks passed" >>,
            << "Blocked:" >> \o FailedNames(checks))

\* CHECK 6 with the resolved price impact, then CHECK 7: suspended on
\* rugCheck.checkToken when the rules require it, skipped otherwise
AfterPriceImpact(i, w, e, resolvedPriceImpact) ==
    LET checks6 == e.checks \o << PriceImpactCheck(rules, resolvedPriceImpact) >>
    IN  IF rules.requireRugCheck
        THEN /\ spendingWindow' = w
             /\ evals' = [evals EXCEPT ![i] = [e EXCEPT !.pc = "rug", !.checks = checks6]]
             /\ UNCHANGED <<lastDecision, approvedLog>>
        ELSE SwapVerdict(i, w, e, checks6 \o << RugSkipped >>)

\* approveSwap from its entry to the first await: checks 1 to 5; with a
\* simulatedPriceImpact the call goes on to check 6 without suspending
ApproveSwapEnter(i, amountSOL, outputMint, agentBalanceSOL, simulatedPriceImpact) ==
    /\ i = nEvals + 1
    /\ evals[i].pc = "new"
    /\ nEvals' = i
    /\ LET w == RefreshedWindow(spendingWindow, now)
           projectedDailyTotal == w.totalSpent + amountSOL
           checks == << SingleTxCheck(rules, amountSOL),
                        DailyLimitCheck(rules, projectedDailyTotal),
                        PositionCheck(rules, amountSOL, agentBalanceSOL),
                        BlacklistCheck(rules, outputMint) >>
                     \o WhitelistChecks(rules, outputMint)
           e == [ IdleEval("quote") EXCEPT
                      !.kind = "swap", !.amountSOL = amountSOL,
                      !.checks = checks, !.projected = projectedDailyTotal,
                      !.pre = spendingWindow, !.outputMint = outputMint,
                      !.agentBalanceSOL = agentBalanceSOL, !.rules = rules ]
       IN  IF simulatedPriceImpact # Undefined
           THEN AfterPriceImpact(i, w, e, simulatedPriceImpact)
           ELSE /\ spendingWindow' = w
                /\ evals' = [evals EXCEPT ![i] = e]
                /\ UNCHANGED <<lastDecision, approvedLog>>
    /\ UNCHANGED <<now, nTicks, rules>>
    /\ UNCHANGED otherThanGov

\* jupiter.simulateSwap returns: a quote's price impact, or 999 when the
\* quote failed (simulateSwap catches the failure itself)
QuoteReturns(i, priceImpact) ==
    /\ evals[i].pc = "quote"
    /\ AfterPriceImpact(i, spendingWindow, evals[i], priceImpact)
    /\ UNCHANGED <<now, nTicks, rules, nEvals>>
    /\ UNCHANGED otherThanGov

\* the await of rugCheck.checkToken ends with an assessment: CHECK 7 and
\* the verdict
RugCheckEnds(i, score, assessment) ==
    /\ evals[i].pc = "rug"
    /\ SwapVerdict(i, spendingWindow, [evals[i] EXCEPT !.assessment = assessment],
                   evals[i].checks \o << RugScoreCheck(rules, score) >>)
    /\ UNCHANGED <<now, nTicks, rules, nEvals>>
    /\ UNCHANGED otherThanGov

\* rugCheck.checkToken returns the assessment made of the oracle's report
RugCheckReturns(i, score) == RugCheckEnds(i, score, None)

\* a checkToken without its catch block: the oracle's failure ends the
\* evaluation and no decision is returned
RugCheckThrows(i) ==
    /\ evals[i].pc = "rug"
    /\ evals' = [evals EXCEPT ![i] = IdleEval("done")]
    /\ UNCHANGED <<now, nTicks, rules, nEvals, spendingWindow, lastDecision, approvedLog>>
    /\ UNCHANGED otherThanGov

\* the oracle cannot be reached: checkToken catches the failure and returns
\* the fallback assessment
RugCheckFails(i) == RugCheckEnds(i, FallbackScore, "fallback")

\* the quote provider fails: simulateSwap catches the failure and returns
\* priceImpact 999
QuoteFails(i) == QuoteReturns(i, QuoteFailedImpact)

\* approveTransfer: no await, one step
ApproveTransfer(i, amountSOL) ==
    /\ i = nEvals + 1
    /\ evals[i].pc = "new"
    /\ nEvals' = i
    /\ LET w == RefreshedWindow(spendingWindow, now)
           projectedTotal == w.totalSpent + amountSOL
           checks == << SingleTxCheck(rules, amountSOL),
                        DailyLimitCheck(rules, projectedTotal) >>
           e == [ IdleEval("new") EXCEPT !.kind = "transfer", !.amountSOL = amountSOL,
                  !.projected = projectedTotal, !.pre = spendingWindow ]
       IN  Verdict(i, w, e, checks,
                   << "Transfer approved" >>,
                   << "Transfer blocked by spending limit" >>)
    /\ UNCHANGED <<now, nTicks, rules>>
    /\ UNCHANGED otherThanGov

\* getSpendingStatus: consults the window
GetSpendingStatus ==
    /\ spendingWindow' = RefreshedWindow(spendingWindow, now)
    /\ UNCHANGED <<now, nTicks, rules, evals, nEvals, lastDecision, approvedLog>>
    /\ UNCHANGED otherThanGov

\* updateRules(updates)
UpdateRules(updates) ==
    /\ rules' = Merge(rules, updates)
    /\ UNCHANGED <<now, nTicks, spendingWindow, evals, nEvals, lastDecision, approvedLog>>
    /\ UNCHANGED otherThanGov

\* the clock advances
TickDeltas == { 1, DayMs - 1 }

Tick(d) ==
    /\ nTicks < MaxTicks
    /\ nTicks' = nTicks + 1
    /\ now' = now + d
    /\ UNCHANGED <<rules, spendingWindow, evals, nEvals, lastDecision, approvedLog>>
    /\ UNCHANGED otherThanGov

----------------------------------------------------------------------------
(* DCAStrategy *)

\* DCAConfig: amountPerRound 0.01 SOL, minBalanceRequired 0.05 SOL, and a
\* limit of one round or none (maxRounds 0)
DCAConfigs ==
    { [ amountPerRound |-> SOL \div 100, maxRounds |-> m,
        minBalanceRequired |-> SOL \div 20 ] : m \in {0, 1} }

\* what wallet.getBalance() returns to a round
DCABalances == { SOL \div 20, SOL }

\* new DCAStrategy(wallet, connection, config); tasks counts the scheduled
\* tasks that are alive, cronJob tells whether this.cronJob holds one
DCAInit ==
    /\ dcaConfig \in DCAConfigs
    /\ dcaState = [ roundsCompleted |-> 0, totalSpent |-> 0, active |-> FALSE,
                    cronJob |-> FALSE, tasks |-> 0, history |-> << >> ]
    /\ dcaRounds = [r \in 1..MaxRounds |-> "new"]
    /\ nRounds = 0

\* DCAStrategy.stop() applied to the state st
DCAStopped(st) ==
    [st EXCEPT !.active = FALSE, !.cronJob = FALSE,
               !.tasks = IF st.cronJob THEN @ - 1 ELSE @]

\* DCAStrategy.start(): schedules a task and keeps it in cronJob; a task
\* already held there stays scheduled
StrategyStart ==
    /\ dcaState.tasks < MaxCronTasks
    /\ dcaState' = [dcaState EXCEPT !.active = TRUE, !.cronJob = TRUE, !.tasks = @ + 1]
    /\ UNCHANGED <<dcaConfig, dcaRounds, nRounds, walletOps>>

\* start() of a strategy on its own
DCAStart ==
    /\ StrategyStart
    /\ UNCHANGED otherThanDCA

DCAStop ==
    /\ dcaState' = DCAStopped(dcaState)
    /\ UNCHANGED <<dcaConfig, dcaRounds, nRounds, walletOps>>
    /\ UNCHANGED otherThanDCA

\* executeDCARound from its entry to the first await, called by a scheduled
\* task or by hand
ExecuteDCARound(r, byCron) ==
    /\ r = nRounds + 1
    /\ dcaRounds[r] = "new"
    /\ byCron => dcaState.tasks > 0
    /\ nRounds' = r
    /\ IF dcaConfig.maxRounds > 0 /\ dcaState.roundsCompleted >= dcaConfig.maxRounds
       THEN /\ dcaState' = DCAStopped(dcaState)
            /\ dcaRounds' = [dcaRounds EXCEPT ![r] = "done"]
       ELSE /\ dcaRounds' = [dcaRounds EXCEPT ![r] = "balance"]
            /\ UNCHANGED dcaState
    /\ UNCHANGED <<dcaConfig, walletOps>>
    /\ UNCHANGED otherThanDCA

\* wallet.getBalance() returns
DCABalanceReturns(r, balance) ==
    /\ dcaRounds[r] = "balance"
    /\ LET amountNeeded == dcaConfig.amountPerRound + dcaConfig.minBalanceRequired
       IN  dcaRounds' = [dcaRounds EXCEPT ![r] =
                            IF balance < amountNeeded THEN "done" ELSE "sim"]
    /\ UNCHANGED <<dcaConfig, dcaState, nRounds, walletOps>>
    /\ UNCHANGED otherThanDCA

\* jupiter.simulateSwap returns; it catches a failed quote itself
DCASimulationReturns(r, feasible) ==
    /\ dcaRounds[r] = "sim"
    /\ dcaRounds' = [dcaRounds EXCEPT ![r] = IF feasible THEN "swap" ELSE "done"]
    /\ UNCHANGED <<dcaConfig, dcaState, nRounds, walletOps>>
    /\ UNCHANGED otherThanDCA

\* jupiter.executeSwap returns: the wallet has signed and sent the swap
DCASwapReturns(r) ==
    /\ dcaRounds[r] = "swap"
    /\ walletOps' = Append(walletOps,
                           [kind |-> "swap", amountSOL |-> dcaConfig.amountPerRound])
    /\ dcaState' = [dcaState EXCEPT
                      !.roundsCompleted = @ + 1,
                      !.totalSpent = @ + dcaConfig.amountPerRound,
                      !.history = Append(@, dcaState.roundsCompleted + 1)]
    /\ dcaRounds' = [dcaRounds EXCEPT ![r] = "done"]
    /\ UNCHANGED <<dcaConfig, nRounds>>
    /\ UNCHANGED otherThanDCA

\* wallet.getBalance() or jupiter.executeSwap throws: the round's promise is
\* rejected
DCARoundThrows(r) ==
    /\ dcaRounds[r] \in {"balance", "swap"}
    /\ dcaRounds' = [dcaRounds EXCEPT ![r] = "failed"]
    /\ UNCHANGED <<dcaConfig, dcaState, nRounds, walletOps>>
    /\ UNCHANGED otherThanDCA

----------------------------------------------------------------------------
(* HeartbeatEngine *)

\* parseHeartbeatFile: the defaults, of the fields that steer a cycle
DefaultDirectives ==
    [emergencyStop |-> FALSE, rugCheckEnabled |-> TRUE, pauseDca |-> FALSE]

\* contents of HEARTBEAT.md
DirectiveSets ==
    { DefaultDirectives,
      [DefaultDirectives EXCEPT !.emergencyStop = TRUE],
      [DefaultDirectives EXCEPT !.rugCheckEnabled = FALSE, !.pauseDca = TRUE] }

\* what wallet.getBalance() returns to a cycle
HBBalances == { SOL \div 20, SOL }

\* reasonWithAI without an OpenAI key
RuleBasedReasoning(balance) ==
    [ iterable |-> TRUE,
      plannedActions |-> IF balance > SOL \div 10
                         THEN << "check_rug_exposure", "monitor_prices" >>
                         ELSE << >> ]

\* reasonWithAI with a key: the parsed completion, which need not hold a
\* plannedActions list, or the plan of the catch block
AIReasonings ==
    { [iterable |-> TRUE, plannedActions |-> << "execute_dca", "rebalance_portfolio" >>],
      [iterable |-> TRUE, plannedActions |-> << "monitor_prices" >>],
      [iterable |-> FALSE, plannedActions |-> << >>] }

Reasonings(balance) == { RuleBasedReasoning(balance) } \cup AIReasonings

\* executeAction: the thoughts, the events and the result (<< >> for null)
ExecuteAction(action, directives) ==
    CASE action = "check_rug_exposure" ->
           IF ~directives.rugCheckEnabled
           THEN [thoughts |-> << >>, events |-> << >>, result |-> << >>]
           ELSE [ thoughts |-> << "EXECUTE" >>, events |-> << "rug_check_requested" >>,
                  result |-> << "rug_exposure_checked" >> ]
      [] action = "monitor_prices" ->
           [thoughts |-> << "OBSERVE" >>, events |-> << "price_monitored" >>, result |-> << >>]
      [] action = "execute_dca" ->
           IF directives.pauseDca
           THEN [thoughts |-> << "OBSERVE" >>, events |-> << >>, result |-> << >>]
           ELSE [ thoughts |-> << "EXECUTE" >>, events |-> << "dca_execute_requested" >>,
                  result |-> << "dca_executed" >> ]
      [] action = "check_trailing_stops" ->
           [ thoughts |-> << "OBSERVE" >>, events |-> << "trailing_check_requested" >>,
             result |-> << >> ]
      [] action = "rebalance_portfolio" ->
           [ thoughts |-> << "PLAN" >>, events |-> << "rebalance_requested" >>,
             result |-> << "rebalance_requested" >> ]
      [] OTHER -> [thoughts |-> << >>, events |-> << >>, result |-> << >>]

\* the EXECUTE loop of runCycle over the planned actions
RECURSIVE ExecuteAll(_, _)
ExecuteAll(plannedActions, directives) ==
    IF plannedActions = << >>
    THEN [thoughts |-> << >>, events |-> << >>, actionsTaken |-> << >>]
    ELSE LET first == ExecuteAction(Head(plannedActions), directives)
             rest == ExecuteAll(Tail(plannedActions), directives)
         IN  [ thoughts |-> first.thoughts \o rest.thoughts,
               events |-> first.events \o rest.events,
               actionsTaken |-> first.result \o rest.actionsTaken ]

\* a runCycle call that has not begun, and the HeartbeatCycle it builds
NoCycle ==
    [ pc |-> "new", directives |-> DefaultDirectives, balance |-> 0,
      decision |-> "sleep", actionsTaken |-> << >>, ended |-> FALSE ]

\* new HeartbeatEngine(wallet, connection, intervalMs); handle tells whether
\* this.handle holds a timer that is alive, timers counts the live timers
HBInit ==
    /\ heartbeatFile = DefaultDirectives
    /\ hb = [running |-> FALSE, handle |-> FALSE, timers |-> 0, cycleNumber |-> 0]
    /\ hbCycles = [c \in 1..MaxCycles |-> NoCycle]
    /\ published = << >>
    /\ emitted = << >>

\* stop() with the assignment to this.running left out
HBStoppedStillRunning(e) ==
    [e EXCEPT !.handle = FALSE, !.timers = IF e.handle THEN @ - 1 ELSE @]

\* HeartbeatEngine.stop() applied to the engine e
HBStopped(e) ==
    [e EXCEPT !.running = FALSE, !.handle = FALSE,
              !.timers = IF e.handle THEN @ - 1 ELSE @]

\* runCycle past its guard, up to the first await or the emergency stop:
\* the engine after it, the cycle it began, its thoughts and its events
BeginCycle(e) ==
    LET counted == [e EXCEPT !.cycleNumber = @ + 1]
        directives == heartbeatFile
    IN  IF directives.emergencyStop
        THEN [ engine |-> HBStopped(counted), began |-> TRUE,
               cycle |-> [NoCycle EXCEPT !.pc = "stopped", !.directives = directives],
               thoughts |-> << "WAKE", "READ", "ALERT", "SLEEP" >>,
               events |-> << "emergency_stop" >> ]
        ELSE [ engine |-> counted, began |-> TRUE,
               cycle |-> [NoCycle EXCEPT !.pc = "balance", !.directives = directives],
               thoughts |-> << "WAKE", "READ", "READ" >>,
               events |-> << >> ]

\* runCycle without its guard on this.running
RunCycleUnguarded(e) == BeginCycle(e)

\* runCycle on the engine e from its entry to the first await: the engine
\* after it, the cycle it began (if any), its thoughts and its events
RunCycle(e) ==
    IF ~e.running
    THEN [ engine |-> e, began |-> FALSE, cycle |-> NoCycle,
           thoughts |-> << >>, events |-> << >> ]
    ELSE BeginCycle(e)

\* the cycle records after the call r of runCycle
WithCycle(r) ==
    IF r.began THEN [hbCycles EXCEPT ![r.engine.cycleNumber] = r.cycle] ELSE hbCycles

\* HeartbeatEngine.start(): the first cycle at once, then a new interval
\* timer in this.handle; a timer already held there stays alive
EngineStart ==
    /\ hb.timers < MaxTimers
    /\ hb.cycleNumber < MaxCycles
    /\ LET r == RunCycle([hb EXCEPT !.running = TRUE])
       IN  /\ hb' = [r.engine EXCEPT !.handle = TRUE, !.timers = @ + 1]
           /\ hbCycles' = WithCycle(r)
           /\ published' = << "WAKE" >> \o r.thoughts
           /\ emitted' = r.events
    /\ UNCHANGED heartbeatFile

\* start() of an engine on its own
HBStart ==
    /\ EngineStart
    /\ UNCHANGED otherThanHB

\* a stop() that also abandons the cycles in flight
EngineStopAborts ==
    /\ hb' = HBStopped(hb)
    /\ published' = << "SLEEP" >>
    /\ emitted' = << >>
    /\ hbCycles' = [c \in DOMAIN hbCycles |->
                      IF hbCycles[c].pc \in {"balance", "price", "reason"}
                      THEN [hbCycles[c] EXCEPT !.pc = "aborted"]
                      ELSE hbCycles[c]]
    /\ UNCHANGED heartbeatFile

\* HeartbeatEngine.stop()
EngineStop ==
    /\ hb' = HBStopped(hb)
    /\ published' = << "SLEEP" >>
    /\ emitted' = << >>
    /\ UNCHANGED <<heartbeatFile, hbCycles>>

\* stop() of an engine on its own
HBStop ==
    /\ EngineStop
    /\ UNCHANGED otherThanHB

\* an interval timer of the engine fires: runCycle
EngineTimerFires ==
    /\ hb.timers > 0
    /\ hb.running => hb.cycleNumber < MaxCycles
    /\ LET r == RunCycle(hb)
       IN  /\ hb' = r.engine
           /\ hbCycles' = WithCycle(r)
           /\ published' = r.thoughts
           /\ emitted' = r.events
    /\ UNCHANGED heartbeatFile

\* a timer of an engine on its own fires
HBTimerFires ==
    /\ EngineTimerFires
    /\ UNCHANGED otherThanHB

\* wallet.getBalance() returns to cycle c, which goes on to jupiter.getPrice
HBBalanceReturns(c, balance) ==
    /\ hbCycles[c].pc = "balance"
    /\ hbCycles' = [hbCycles EXCEPT ![c].pc = "price", ![c].balance = balance]
    /\ published' = << >>
    /\ emitted' = << >>
    /\ UNCHANGED <<heartbeatFile, hb>>
    /\ UNCHANGED otherThanHB

\* wallet.getBalance() throws: the catch block of runCycle
HBBalanceThrows(c) ==
    /\ hbCycles[c].pc = "balance"
    /\ hbCycles' = [hbCycles EXCEPT ![c].pc = "failed", ![c].decision = "alert"]
    /\ published' = << "ERROR" >>
    /\ emitted' = << "cycle_error" >>
    /\ UNCHANGED <<heartbeatFile, hb>>
    /\ UNCHANGED otherThanHB

\* jupiter.getPrice returns (0 when the request failed); the cycle goes on
\* to reasonWithAI
HBPriceReturns(c) ==
    /\ hbCycles[c].pc = "price"
    /\ hbCycles' = [hbCycles EXCEPT ![c].pc = "reason"]
    /\ published' = << "OBSERVE", "THINK" >>
    /\ emitted' = << >>
    /\ UNCHANGED <<heartbeatFile, hb>>
    /\ UNCHANGED otherThanHB

\* reasonWithAI returns: PLAN, the EXECUTE loop and SLEEP, or the catch
\* block when the reasoning holds no list of planned actions
HBReasonReturns(c, reasoning) ==
    /\ hbCycles[c].pc = "reason"
    /\ reasoning \in Reasonings(hbCycles[c].balance)
    /\ IF reasoning.iterable
       THEN LET done == ExecuteAll(reasoning.plannedActions, hbCycles[c].directives)
            IN  /\ hbCycles' = [hbCycles EXCEPT
                      ![c].pc = "sealed",
                      ![c].actionsTaken = done.actionsTaken,
                      ![c].decision = IF done.actionsTaken # << >> THEN "act" ELSE "sleep",
                      ![c].ended = TRUE]
                /\ published' = << "THINK", "PLAN" >> \o done.thoughts \o << "SLEEP" >>
                /\ emitted' = done.events \o << "cycle_complete" >>
       ELSE /\ hbCycles' = [hbCycles EXCEPT ![c].pc = "failed", ![c].decision = "alert"]
            /\ published' = << "THINK", "PLAN", "ERROR" >>
            /\ emitted' = << "cycle_error" >>
    /\ UNCHANGED <<heartbeatFile, hb>>
    /\ UNCHANGED otherThanHB

\* HEARTBEAT.md is edited
EditHeartbeatFile(directives) ==
    /\ directives # heartbeatFile
    /\ heartbeatFile' = directives
    /\ published' = << >>
    /\ emitted' = << >>
    /\ UNCHANGED <<hb, hbCycles>>
    /\ UNCHANGED otherThanHB

----------------------------------------------------------------------------
(* Orchestrator: pure parts *)

OrchestratorId == "orchestrator_main"       \* orchestratorWallet.agentId

PROTECTED == { "orchestrator_main", "risk_manager_01" }

GasReserve == 2000          \* recallFunds leaves 0.002 SOL for gas
RecallDust == 1000          \* recallFunds sends no less than 0.001 SOL
RouteRent == 1000           \* the sack route leaves 0.001 SOL
ReserveSOL == SOL \div 10   \* distributeCapital keeps 0.1 SOL in the vault
MinDistributable == SOL \div 100
MinAmount == 1000           \* distributeCapital sends no less than 0.001 SOL
FixedStep == 100            \* toFixed(4): steps of 0.0001 SOL

\* the wallets handed to registerAgent: agentId and role
Wallets ==
    { [agentId |-> "orchestrator_main", role |-> "orchestrator"],
      [agentId |-> "risk_manager_01", role |-> "risk_manager"],
      [agentId |-> "dca_agent_01", role |-> "dca_agent"] }

AgentIds == { w.agentId : w \in Wallets }

\* the options handed to registerAgent: the program registers its agents
\* with or without a heartbeat and without a strategy
RegisterOptions == { [startHeartbeat |-> TRUE], [startHeartbeat |-> FALSE] }

\* what agent.wallet.getBalance() returns
AgentBalances == { 0, 2999, 3000, SOL }

\* what orchestratorWallet.getBalance() returns
VaultBalances == { 105000, 110060, 11 * (SOL \div 10) }

Max(a, b) == IF a >= b THEN a ELSE b

\* Math.max(0, balance - 0.002) with the reserve left out
RecallAmountAll(balance) == Max(0, balance)

\* Math.max(0, balance - 0.002)
RecallAmount(balance) == Max(0, balance - GasReserve)

\* the weights of distributeCapital, in percent: weights[role] || 0.10
RoleWeightPct(role) ==
    CASE role = "dca_agent" -> 40
      [] role = "trailing_stop_agent" -> 25
      [] role = "scout_agent" -> 15
      [] role = "risk_manager" -> 5
      [] role = "custom" -> 15
      [] OTHER -> 10

\* parseFloat((distributable * weight).toFixed(4)) for a role's weight: the
\* multiple of 0.0001 SOL nearest to the product
RoleBasedAmount(distributable, role) ==
    FixedStep * ((distributable * RoleWeightPct(role) + 50 * FixedStep)
                    \div (100 * FixedStep))

\* the same with the weight 1 / agents.length
EqualAmount(distributable, length) ==
    FixedStep * ((2 * distributable + FixedStep * length)
                    \div (2 * FixedStep * length))

DistributionAmount(strategy, distributable, role, length) ==
    IF strategy = "equal"
    THEN EqualAmount(distributable, length)
    ELSE RoleBasedAmount(distributable, role)

\* the amounts the loop of distributeCapital hands to sendSOL, over the
\* entries es of a registry of the given length: the vault itself and
\* amounts under 0.001 SOL are passed over
RECURSIVE Payments(_, _, _, _)
Payments(es, strategy, distributable, length) ==
    IF es = << >> THEN << >>
    ELSE LET amount == DistributionAmount(strategy, distributable, Head(es).role, length)
             rest == Payments(Tail(es), strategy, distributable, length)
         IN  IF Head(es).agentId = OrchestratorId \/ amount < MinAmount
             THEN rest
             ELSE << amount >> \o rest

\* the agents those amounts go to, in the same order
RECURSIVE Payees(_, _, _, _)
Payees(es, strategy, distributable, length) ==
    IF es = << >> THEN << >>
    ELSE LET amount == DistributionAmount(strategy, distributable, Head(es).role, length)
             rest == Payees(Tail(es), strategy, distributable, length)
         IN  IF Head(es).agentId = OrchestratorId \/ amount < MinAmount
             THEN rest
             ELSE << Head(es).agentId >> \o rest

----------------------------------------------------------------------------
(* Orchestrator: state *)

\* an AgentEntry: of the heartbeat engine, whether there is one and whether
\* it runs; the strategy is null
Entry(wallet, options) ==
    [ agentId |-> wallet.agentId, role |-> wallet.role,
      heartbeat |-> IF options.startHeartbeat THEN "running" ELSE None,
      active |-> options.startHeartbeat ]

Registered == { agents[i].agentId : i \in DOMAIN agents }

IndexOf(agentId) == CHOOSE i \in DOMAIN agents : agents[i].agentId = agentId

\* delete this.agents[agentId]
Deleted(agentId) == SelectSeq(agents, LAMBDA e : e.agentId # agentId)

\* this.agents[agentId] = entry: a key already there keeps its place
Assigned(entry) ==
    IF entry.agentId \in Registered
    THEN [agents EXCEPT ![IndexOf(entry.agentId)] = entry]
    ELSE Append(agents, entry)

\* a call that is not in flight; a call that has returned keeps its result:
\* success, error, the balance it read, whether it handed a transfer to
\* sendSOL, the amount recalled or distributed, and the agents that capital
\* was distributed to
IdleCall(pc) ==
    [ pc |-> pc, op |-> None, agentId |-> None, strategy |-> None,
      balance |-> Undefined, amount |-> 0, queue |-> << >>, payees |-> << >>,
      totalSent |-> 0, distributed |-> {},
      success |-> FALSE, error |-> None, attempted |-> FALSE ]

\* new Orchestrator(orchestratorWallet, connection)
OrchInit ==
    /\ agents = << >>
    /\ calls = [k \in 1..MaxCalls |-> IdleCall("new")]
    /\ nCalls = 0

----------------------------------------------------------------------------
(* Orchestrator: lifecycle operations *)

\* registerAgent(wallet, options)
RegisterAgent(wallet, options) ==
    /\ wallet.agentId \in Registered \/ Len(agents) < MaxAgents
    /\ agents' = Assigned(Entry(wallet, options))
    /\ UNCHANGED <<calls, nCalls>>
    /\ UNCHANGED otherThanOrch

\* activateAgent(agentId): starts the entry's engine, or a new one
ActivateAgent(agentId) ==
    /\ agents' = IF agentId \in Registered
                 THEN [agents EXCEPT ![IndexOf(agentId)].heartbeat = "running",
                                     ![IndexOf(agentId)].active = TRUE]
                 ELSE agents
    /\ UNCHANGED <<calls, nCalls>>
    /\ UNCHANGED otherThanOrch

\* sleepAgent(agentId): stops the engine
SleepAgent(agentId) ==
    /\ agents' = IF agentId \in Registered
                 THEN [agents EXCEPT
                         ![IndexOf(agentId)].heartbeat = IF @ # None THEN "stopped" ELSE None,
                         ![IndexOf(agentId)].active = FALSE]
                 ELSE agents
    /\ UNCHANGED <<calls, nCalls>>
    /\ UNCHANGED otherThanOrch

\* haltAgent(agentId, reason): leaves the engine as it is
HaltAgent(agentId) ==
    /\ agents' = IF agentId \in Registered
                 THEN [agents EXCEPT ![IndexOf(agentId)].active = FALSE]
                 ELSE agents
    /\ UNCHANGED <<calls, nCalls>>
    /\ UNCHANGED otherThanOrch

\* removeAgent(agentId)
RemoveAgent(agentId) ==
    /\ agents' = Deleted(agentId)
    /\ UNCHANGED <<calls, nCalls>>
    /\ UNCHANGED otherThanOrch

----------------------------------------------------------------------------
(* Orchestrator: recallFunds and sackAgent *)

\* the entry of the asynchronous call k
Begins(k) ==
    /\ k = nCalls + 1
    /\ calls[k].pc = "new"
    /\ nCalls' = k

\* the call k returns
Returned(k, op, success, error, balance, attempted, amount) ==
    calls' = [calls EXCEPT ![k] =
                [IdleCall("done") EXCEPT
                    !.op = op, !.success = success, !.error = error,
                    !.balance = balance, !.attempted = attempted, !.amount = amount]]

\* recallFunds(agentId) from its entry to agent.wallet.getBalance()
RecallFunds(k, agentId) ==
    /\ Begins(k)
    /\ IF agentId \notin Registered
       THEN Returned(k, "recall", FALSE, "Agent not found", Undefined, FALSE, 0)
       ELSE IF agentId = OrchestratorId
       THEN Returned(k, "recall", FALSE, "Cannot recall from vault", Undefined, FALSE, 0)
       ELSE calls' = [calls EXCEPT ![k] =
                  [IdleCall("balance") EXCEPT !.op = "recall", !.agentId = agentId]]
    /\ UNCHANGED agents
    /\ UNCHANGED otherThanOrch

\* sackAgent without its test of the protected ids
SackAgentUnguarded(k, agentId) ==
    /\ Begins(k)
    /\ IF agentId \notin Registered
       THEN Returned(k, "sack", FALSE, "Agent not found", Undefined, FALSE, 0)
       ELSE calls' = [calls EXCEPT ![k] =
                  [IdleCall("balance") EXCEPT !.op = "sack", !.agentId = agentId]]
    /\ UNCHANGED agents
    /\ UNCHANGED otherThanOrch

\* sackAgent(agentId) from its entry into recallFunds, up to getBalance()
SackAgent(k, agentId) ==
    /\ Begins(k)
    /\ IF agentId \in PROTECTED
       THEN Returned(k, "sack", FALSE, "Protected agent cannot be sacked",
                     Undefined, FALSE, 0)
       ELSE IF agentId \notin Registered
       THEN Returned(k, "sack", FALSE, "Agent not found", Undefined, FALSE, 0)
       ELSE calls' = [calls EXCEPT ![k] =
                  [IdleCall("balance") EXCEPT !.op = "sack", !.agentId = agentId]]
    /\ UNCHANGED agents
    /\ UNCHANGED otherThanOrch

\* recallFunds has returned to the call k: a recallFunds call returns its
\* result; sackAgent goes on to stop the agent and delete its entry
RecallDone(k, balance, success, error, attempted, amount) ==
    LET c == calls[k]
    IN  IF c.op = "recall"
        THEN /\ Returned(k, "recall", success, error, balance, attempted, amount)
             /\ UNCHANGED agents
        ELSE /\ Returned(k, "sack", TRUE, None, balance, attempted, amount)
             /\ agents' = Deleted(c.agentId)

\* agent.wallet.getBalance() returns to recallFunds
RecallBalanceReturns(k, balance) ==
    /\ calls[k].pc = "balance"
    /\ calls[k].op \in {"recall", "sack"}
    /\ LET recallAmount == RecallAmount(balance)
       IN  IF recallAmount < RecallDust
           THEN RecallDone(k, balance, FALSE, "Insufficient balance to recall", FALSE, 0)
           ELSE /\ calls' = [calls EXCEPT ![k].pc = "send", ![k].balance = balance,
                                          ![k].amount = recallAmount]
                /\ UNCHANGED agents
    /\ UNCHANGED nCalls
    /\ UNCHANGED otherThanOrch

\* agent.wallet.sendSOL(vault, recallAmount) returns to recallFunds, or
\* throws into its catch block
RecallSendReturns(k, sent) ==
    /\ calls[k].pc = "send"
    /\ calls[k].op \in {"recall", "sack"}
    /\ IF sent
       THEN RecallDone(k, calls[k].balance, TRUE, None, TRUE, calls[k].amount)
       ELSE RecallDone(k, calls[k].balance, FALSE, "send failed", TRUE, 0)
    /\ UNCHANGED nCalls
    /\ UNCHANGED otherThanOrch

\* getBalance() throws in recallFunds, sackAgent or distributeCapital: the
\* call's promise is rejected
CallRejects(k) ==
    /\ calls[k].pc = "balance"
    /\ calls[k].op \in {"recall", "sack", "distribute"}
    /\ Returned(k, calls[k].op, FALSE, "rejected", Undefined, FALSE, 0)
    /\ UNCHANGED <<agents, nCalls>>
    /\ UNCHANGED otherThanOrch

----------------------------------------------------------------------------
(* Orchestrator: distributeCapital *)

\* distributeCapital(strategy) up to orchestratorWallet.getBalance(); the
\* call keeps the weighting in its strategy field
DistributeCapital(k, strategy) ==
    /\ Begins(k)
    /\ calls' = [calls EXCEPT ![k] =
          [IdleCall("balance") EXCEPT !.op = "distribute", !.strategy = strategy]]
    /\ UNCHANGED agents
    /\ UNCHANGED otherThanOrch

\* the vault's balance returns: the registry is read and the loop reaches
\* its first sendSOL, or its end
DistributeBalanceReturns(k, vaultBalance) ==
    /\ calls[k].pc = "balance"
    /\ calls[k].op = "distribute"
    /\ LET distributable == Max(0, vaultBalance - ReserveSOL)
           queue == Payments(agents, calls[k].strategy, distributable, Len(agents))
           payees == Payees(agents, calls[k].strategy, distributable, Len(agents))
       IN  IF distributable < MinDistributable
           THEN Returned(k, "distribute", FALSE, "Insufficient vault balance",
                         vaultBalance, FALSE, 0)
           ELSE IF queue = << >>
           THEN Returned(k, "distribute", TRUE, None, vaultBalance, FALSE, 0)
           ELSE calls' = [calls EXCEPT ![k].pc = "send", ![k].balance = vaultBalance,
                                       ![k].queue = queue, ![k].payees = payees]
    /\ UNCHANGED <<agents, nCalls>>
    /\ UNCHANGED otherThanOrch

\* the call c after one pass of the loop: sendSOL returned (sent) or threw
\* into the catch block; the loop goes on to the next sendSOL, or to its end
SendOutcome(c, sent) ==
    LET amount == Head(c.queue)
        totalSent == IF sent THEN c.totalSent + amount ELSE c.totalSent
        distributed == IF sent THEN c.distributed \cup { Head(c.payees) }
                               ELSE c.distributed
    IN  IF Tail(c.queue) = << >>
        THEN [IdleCall("done") EXCEPT
                 !.op = "distribute", !.success = TRUE, !.balance = c.balance,
                 !.attempted = TRUE, !.amount = totalSent,
                 !.distributed = distributed]
        ELSE [c EXCEPT !.queue = Tail(c.queue), !.payees = Tail(c.payees),
                       !.totalSent = totalSent, !.distributed = distributed]

\* a loop without the try block: the first sendSOL that throws ends the call
AfterSendUncaught(c, sent) ==
    IF sent THEN SendOutcome(c, sent)
    ELSE [IdleCall("done") EXCEPT
             !.op = "distribute", !.error = "send failed", !.balance = c.balance,
             !.attempted = TRUE, !.amount = c.totalSent,
             !.distributed = c.distributed]

\* the try and catch blocks of the loop
AfterSend(c, sent) == SendOutcome(c, sent)

\* orchestratorWallet.sendSOL(agent, amount) returns, or throws into the
\* catch block of the loop; it can succeed only while the vault holds the
\* amount
DistributeSendReturns(k, sent) ==
    /\ calls[k].pc = "send"
    /\ calls[k].op = "distribute"
    /\ sent => Head(calls[k].queue) <= calls[k].balance - calls[k].totalSent
    /\ calls' = [calls EXCEPT ![k] = AfterSend(calls[k], sent)]
    /\ UNCHANGED <<agents, nCalls>>
    /\ UNCHANGED otherThanOrch

----------------------------------------------------------------------------
(* The sack route of the server *)

\* DELETE /api/agents/:agentId/sack up to the balance of the agent's wallet
SackRoute(k, agentId) ==
    /\ Begins(k)
    /\ IF agentId \in PROTECTED
       THEN Returned(k, "route", FALSE, "protected core agent", Undefined, FALSE, 0)
       ELSE calls' = [calls EXCEPT ![k] =
                  [IdleCall("balance") EXCEPT !.op = "route", !.agentId = agentId]]
    /\ UNCHANGED agents
    /\ UNCHANGED otherThanOrch

\* step 2 of the route: orchestrator.removeAgent(agentId) and the response
RouteRemoves(k, balance, attempted, recalledSOL) ==
    /\ agents' = Deleted(calls[k].agentId)
    /\ Returned(k, "route", TRUE, None, balance, attempted, recalledSOL)

\* the balance returns to the route: all but 0.001 SOL goes to the vault
RouteBalanceReturns(k, balance) ==
    /\ calls[k].pc = "balance"
    /\ calls[k].op = "route"
    /\ IF balance > RouteRent
       THEN /\ calls' = [calls EXCEPT ![k].pc = "send", ![k].balance = balance,
                                      ![k].amount = balance - RouteRent]
            /\ UNCHANGED agents
       ELSE RouteRemoves(k, balance, FALSE, 0)
    /\ UNCHANGED nCalls
    /\ UNCHANGED otherThanOrch

\* sendSOL returns to the route
RouteSendReturns(k) ==
    /\ calls[k].pc = "send"
    /\ calls[k].op = "route"
    /\ RouteRemoves(k, calls[k].balance, TRUE, calls[k].amount)
    /\ UNCHANGED nCalls
    /\ UNCHANGED otherThanOrch

\* loading the wallet, its balance or sendSOL throws: the route's inner
\* catch block; recalledSOL keeps the amount assigned before sendSOL
RouteThrows(k) ==
    /\ calls[k].pc \in {"balance", "send"}
    /\ calls[k].op = "route"
    /\ RouteRemoves(k, calls[k].balance, calls[k].pc = "send", calls[k].amount)
    /\ UNCHANGED nCalls
    /\ UNCHANGED otherThanOrch

----------------------------------------------------------------------------
(* The Orchestrator with the engine and the strategy of one agent *)

\* the agent whose HeartbeatEngine is hb and whose DCAStrategy is dcaState
DcaWallet == [agentId |-> "dca_agent_01", role |-> "dca_agent"]

\* an id that is not in the registry
UnknownId == "scout_agent_01"

\* the registry reg with the engine e behind its entries: an entry that
\* holds an engine shows whether it runs
Synced(reg, e) ==
    [i \in DOMAIN reg |->
        [reg[i] EXCEPT !.heartbeat = IF @ = None THEN None
                                     ELSE IF e.running THEN "running" ELSE "stopped"]]

\* stopOrchestrator(), called by the emergency_stop listener of
\* wireHeartbeatEvents: stop() on the engine of every entry that holds one;
\* the strategies and the active flags are not touched
StopOrchestrator(reg, e) ==
    IF \E i \in DOMAIN reg : reg[i].heartbeat # None THEN HBStopped(e) ELSE e

\* the engine after the listeners of the events of the step have run
AfterListeners(reg, e, events) ==
    IF \E k \in DOMAIN events : events[k] = "emergency_stop"
    THEN StopOrchestrator(reg, e)
    ELSE e

\* registerAgent(dcaWallet, options) for an id that is not registered: with
\* startHeartbeat the engine is built, wired and started before the entry
\* is assigned
SwarmRegisterAgent(options) ==
    /\ DcaWallet.agentId \notin Registered
    /\ IF options.startHeartbeat
       THEN /\ EngineStart
            /\ agents' = Synced(Assigned(Entry(DcaWallet, options)), hb')
       ELSE /\ agents' = Assigned(Entry(DcaWallet, options))
            /\ published' = << >>
            /\ emitted' = << >>
            /\ UNCHANGED <<heartbeatFile, hb, hbCycles>>
    /\ UNCHANGED <<govVars, dcaVars, walletOps, calls, nCalls, stream, trail, factory, fleet>>

\* activateAgent(agentId): start() on the entry's engine, or on a new one
SwarmActivateAgent(agentId) ==
    /\ IF agentId \notin Registered
       THEN /\ published' = << >>
            /\ emitted' = << >>
            /\ UNCHANGED <<agents, heartbeatFile, hb, hbCycles>>
       ELSE /\ EngineStart
            /\ agents' = Synced([agents EXCEPT ![IndexOf(agentId)].heartbeat = "running",
                                               ![IndexOf(agentId)].active = TRUE], hb')
    /\ UNCHANGED <<govVars, dcaVars, walletOps, calls, nCalls, stream, trail, factory, fleet>>

\* sleepAgent(agentId): stop() on the entry's engine and on its DCA strategy
SwarmSleepAgent(agentId) ==
    /\ IF agentId \notin Registered
       THEN /\ published' = << >>
            /\ emitted' = << >>
            /\ UNCHANGED <<agents, heartbeatFile, hb, hbCycles, dcaState>>
       ELSE /\ IF agents[IndexOf(agentId)].heartbeat # None
               THEN EngineStop
               ELSE /\ published' = << >>
                    /\ emitted' = << >>
                    /\ UNCHANGED <<heartbeatFile, hb, hbCycles>>
            /\ dcaState' = DCAStopped(dcaState)
            /\ agents' = Synced([agents EXCEPT ![IndexOf(agentId)].active = FALSE], hb')
    /\ UNCHANGED <<govVars, dcaConfig, dcaRounds, nRounds, walletOps, calls, nCalls, stream, trail, factory, fleet>>

\* executeAction of the Orchestrator, start_dca: the agent's first strategy
\* is built, assigned to the entry and started
SwarmStartDca ==
    /\ DcaWallet.agentId \in Registered
    /\ ~dcaState.active
    /\ dcaState.tasks = 0
    /\ StrategyStart
    /\ agents' = [agents EXCEPT ![IndexOf(DcaWallet.agentId)].active = TRUE]
    /\ UNCHANGED <<govVars, hbVars, calls, nCalls, stream, trail, factory, fleet>>

\* an interval timer of the agent's engine fires: runCycle, and the
\* listeners of what it emits
SwarmTimerFires ==
    /\ EngineTimerFires
    /\ agents' = Synced(agents, AfterListeners(agents, hb', emitted'))
    /\ UNCHANGED <<govVars, dcaVars, walletOps, calls, nCalls, stream, trail, factory, fleet>>

----------------------------------------------------------------------------
(* ThoughtStream *)

\* private maxHistory = 500, scaled down
maxHistory == 2

\* the most think() calls of one run
MaxThoughts == 4

\* the most listeners attached with on("thought", ...)
MaxListeners == 2

\* new ThoughtStream(), with the module's thoughtCounter: thoughts holds the
\* numbers n of the ids t_n, listeners counts the handlers attached, received
\* is what each of them was called with, and emits is the stack of the emit
\* calls that have not returned, the innermost last
NewThoughtStream ==
    [ thoughts |-> << >>, thoughtCounter |-> 0, listeners |-> 0,
      received |-> << >>, emits |-> << >> ]

StreamInit == stream = NewThoughtStream

\* think() with the eviction left out
PushedKeepsAll(thoughts, id) == Append(thoughts, id)

\* this.thoughts.push(thought); if (length > maxHistory) this.thoughts.shift()
Pushed(thoughts, id) ==
    LET t == Append(thoughts, id)
    IN  IF Len(t) > maxHistory THEN Tail(t) ELSE t

\* think() up to the first call of a handler: the thought gets the next id,
\* is appended to the history, and emit("thought", thought) starts over the
\* handlers attached at that moment
Published(s) ==
    LET id == s.thoughtCounter + 1
    IN  [s EXCEPT !.thoughtCounter = id,
                  !.thoughts = Pushed(@, id),
                  !.emits = IF s.listeners = 0 THEN @
                            ELSE Append(@, [id |-> id, next |-> 1, count |-> s.listeners])]

\* thoughtStream.on("thought", handler), called while no emit is running
Subscribe ==
    /\ stream.emits = << >>
    /\ stream.listeners < MaxListeners
    /\ stream' = [stream EXCEPT !.listeners = @ + 1, !.received = Append(@, << >>)]
    /\ UNCHANGED <<coreVars, trail, factory, fleet>>

\* think(agentId, type, message, data) called by an agent, outside any handler
Think ==
    /\ stream.emits = << >>
    /\ stream.thoughtCounter < MaxThoughts
    /\ stream' = Published(stream)
    /\ UNCHANGED <<coreVars, trail, factory, fleet>>

\* the innermost emit calls its next handler, synchronously; the handler
\* either returns, or calls think() itself before it returns
HandlerRuns(publishes) ==
    /\ stream.emits # << >>
    /\ publishes => stream.thoughtCounter < MaxThoughts
    /\ LET n == Len(stream.emits)
           f == stream.emits[n]
           called == [stream EXCEPT
                        !.received[f.next] = Append(@, f.id),
                        !.emits = IF f.next = f.count THEN SubSeq(@, 1, n - 1)
                                  ELSE [@ EXCEPT ![n].next = f.next + 1]]
       IN  stream' = IF publishes THEN Published(called) ELSE called
    /\ UNCHANGED <<coreVars, trail, factory, fleet>>

----------------------------------------------------------------------------
(* TrailingStopStrategy *)

\* the most checkAndAct calls and the most start() calls of one run
MaxChecks == 3
MaxStarts == 2

CheckIds == 1..MaxChecks

\* TrailingStopConfig as the Orchestrator builds it: a trail of 5% and a
\* position worth protecting from 1000 token units
TrailConfig == [trailingPct |-> 5, minPositionValue |-> 1000]

\* what the price API reports for the token, in units that keep the stop
\* price a whole number
TrailPrices == { 100, 90, 120 }

\* what getPrice returns when its request fails or reports no price
FailedPrice == 0

\* what wallet.getTokenBalance returns; it returns 0 when it fails
TokenBalances == { 0, 5000 }

\* price * (1 - trailingPct / 100)
StopPrice(price) == (price * (100 - TrailConfig.trailingPct)) \div 100

\* a checkAndAct call at its entry; of one past getPrice, the price
\* it was given, whether that came from a failed request, and the peak and
\* the stop it compared the price with
NoCheck ==
    [pc |-> "new", price |-> 0, feedFailed |-> FALSE, peakPrice |-> 0, stopPrice |-> 0]

\* new TrailingStopStrategy(wallet, connection, config); timers counts the
\* interval timers that are alive, starting tells whether a start() call
\* is suspended on getPrice, and sells are the swaps that executeSell made,
\* each with the start() count, the price and stop of its trigger
TrailInit ==
    trail = [ active |-> FALSE, triggered |-> FALSE,
              entryPrice |-> 0, currentPrice |-> 0, peakPrice |-> 0, stopPrice |-> 0,
              intervalHandle |-> FALSE, timers |-> 0,
              starting |-> FALSE, nStarts |-> 0,
              checks |-> << >>, sells |-> << >> ]

\* TrailingStopStrategy.stop() applied to the strategy t
TrailStopped(t) ==
    [t EXCEPT !.active = FALSE, !.intervalHandle = FALSE,
              !.timers = IF t.intervalHandle THEN @ - 1 ELSE @]

\* start() from its entry to getPrice
TrailStart ==
    /\ ~trail.starting
    /\ trail.nStarts < MaxStarts
    /\ trail.timers < MaxTimers
    /\ trail' = [trail EXCEPT !.starting = TRUE, !.nStarts = @ + 1]
    /\ UNCHANGED <<coreVars, stream, factory, fleet>>

\* getPrice returns to start(): the entry price, the peak and the stop are
\* set from it, and a new interval timer is kept in intervalHandle
TrailStartPriceReturns(entryPrice) ==
    /\ trail.starting
    /\ trail' = [trail EXCEPT
                   !.starting = FALSE,
                   !.entryPrice = entryPrice, !.currentPrice = entryPrice,
                   !.peakPrice = entryPrice, !.stopPrice = StopPrice(entryPrice),
                   !.active = TRUE, !.intervalHandle = TRUE, !.timers = @ + 1]
    /\ UNCHANGED <<coreVars, stream, factory, fleet>>

\* the request of getPrice fails while start() waits for it
TrailStartPriceFails == TrailStartPriceReturns(FailedPrice)

\* stop() called from outside
TrailStop ==
    /\ trail' = TrailStopped(trail)
    /\ UNCHANGED <<coreVars, stream, factory, fleet>>

\* checkAndAct at its entry: where the call goes
CheckEntered(t) == IF ~t.active \/ t.triggered THEN "done" ELSE "price"

\* an interval timer fires: checkAndAct from its entry to getPrice
TrailTimerFires(c) ==
    /\ trail.timers > 0
    /\ c = Len(trail.checks) + 1
    /\ trail' = [trail EXCEPT
                   !.checks = Append(@, [NoCheck EXCEPT !.pc = CheckEntered(trail)])]
    /\ UNCHANGED <<coreVars, stream, factory, fleet>>

\* if (currentPrice <= this.state.stopPrice)
Triggers(currentPrice, stopPrice) == currentPrice <= stopPrice

\* getPrice returns currentPrice to the check c: the peak and the stop are
\* raised, and at or below the stop executeSell begins: triggered is set,
\* stop() is called, and the call waits for the token balance
PriceArrives(c, currentPrice, feedFailed) ==
    /\ c \in DOMAIN trail.checks
    /\ trail.checks[c].pc = "price"
    /\ LET raised == IF currentPrice > trail.peakPrice
                     THEN [trail EXCEPT !.peakPrice = currentPrice,
                                        !.stopPrice = StopPrice(currentPrice)]
                     ELSE trail
           seen == [raised EXCEPT !.currentPrice = currentPrice,
                                  !.checks[c].price = currentPrice,
                                  !.checks[c].feedFailed = feedFailed,
                                  !.checks[c].peakPrice = raised.peakPrice,
                                  !.checks[c].stopPrice = raised.stopPrice]
       IN  trail' = IF Triggers(currentPrice, seen.stopPrice)
                    THEN [TrailStopped(seen) EXCEPT !.triggered = TRUE,
                                                    !.checks[c].pc = "balance"]
                    ELSE [seen EXCEPT !.checks[c].pc = "done"]
    /\ UNCHANGED <<coreVars, stream, factory, fleet>>

\* the price API answers the check c
TrailPriceReturns(c, currentPrice) == PriceArrives(c, currentPrice, FALSE)

\* the request of getPrice fails for the check c: getPrice returns 0
TrailPriceFails(c) == PriceArrives(c, FailedPrice, TRUE)

\* wallet.getTokenBalance returns to executeSell of the check c
TrailBalanceReturns(c, tokenBalance) ==
    /\ c \in DOMAIN trail.checks
    /\ trail.checks[c].pc = "balance"
    /\ trail' = [trail EXCEPT !.checks[c].pc =
                    IF tokenBalance < TrailConfig.minPositionValue THEN "done" ELSE "swap"]
    /\ UNCHANGED <<coreVars, stream, factory, fleet>>

\* jupiter.executeSwap returns to executeSell of the check c: the position
\* is sold
TrailSwapReturns(c) ==
    /\ c \in DOMAIN trail.checks
    /\ trail.checks[c].pc = "swap"
    /\ trail' = [trail EXCEPT
                   !.checks[c].pc = "done",
                   !.sells = Append(@, [ start |-> trail.nStarts,
                                         price |-> trail.checks[c].price,
                                         feedFailed |-> trail.checks[c].feedFailed,
                                         peakPrice |-> trail.checks[c].peakPrice,
                                         stopPrice |-> trail.checks[c].stopPrice ])]
    /\ UNCHANGED <<coreVars, stream, factory, fleet>>

\* jupiter.executeSwap throws: the catch of checkAndAct logs it
TrailSwapThrows(c) ==
    /\ c \in DOMAIN trail.checks
    /\ trail.checks[c].pc = "swap"
    /\ trail' = [trail EXCEPT !.checks[c].pc = "failed"]
    /\ UNCHANGED <<coreVars, stream, factory, fleet>>

----------------------------------------------------------------------------
(* AgentFactory *)

\* the most spawn calls of one run
MaxSpawns == 3

SpawnIds == 1..MaxSpawns

\* TIER_LIMITS, of each tier its maxAgents
TIER_LIMITS ==
    [ free |-> [maxAgents |-> 2], pro |-> [maxAgents |-> 5], team |-> [maxAgents |-> 20] ]

\* tierOrder.indexOf(tier)
TierIndex(tier) == CASE tier = "free" -> 0 [] tier = "pro" -> 1 [] tier = "team" -> 2

\* two entries of ROLE_REGISTRY
ROLE_REGISTRY ==
    { [role |-> "dca_agent", requiredTier |-> "free"],
      [role |-> "trailing_stop_agent", requiredTier |-> "pro"] }

\* the requests of the spawn route: users, tiers, role keys and custom names
SpawnRequests ==
    [ userId : {"demo_user", "alice"}, tier : {"free", "pro"},
      roleKey : {"dca_agent", "trailing_stop_agent", "janitor"},
      customName : {"a", "b"} ]

\* `${userId.slice(0, 8)}_${suffix}` with the suffix taken from customName
SpawnedAgentId(userId, customName) ==
    CASE userId = "demo_user" /\ customName = "a" -> "demo_use_a"
      [] userId = "demo_user" /\ customName = "b" -> "demo_use_b"
      [] userId = "alice" /\ customName = "a" -> "alice_a"
      [] userId = "alice" /\ customName = "b" -> "alice_b"

\* a spawn call at its entry; of one in flight, the request, the agentId
\* it generated and the error it threw
NoSpawn ==
    [ pc |-> "new", userId |-> None, tier |-> None, role |-> None,
      agentId |-> None, error |-> None ]

\* new AgentFactory(connection)
FactoryInit ==
    factory = [ spawnedAgents |-> << >>, calls |-> << >> ]

\* spawnedAgents.filter((a) => a.spawnedBy === userId).length
AgentsOf(spawnedAgents, userId) ==
    Cardinality({ i \in DOMAIN spawnedAgents : spawnedAgents[i].spawnedBy = userId })

\* the length of userAgents in spawn
UserAgents(userId) == AgentsOf(factory.spawnedAgents, userId)

\* the error spawn throws before it creates anything, or None
SpawnRefusal(request) ==
    IF \A r \in ROLE_REGISTRY : r.role # request.roleKey
    THEN "Unknown role"
    ELSE LET roleDef == CHOOSE r \in ROLE_REGISTRY : r.role = request.roleKey
         IN  IF TierIndex(roleDef.requiredTier) > TierIndex(request.tier)
             THEN "Role requires tier"
             ELSE IF UserAgents(request.userId) >= TIER_LIMITS[request.tier].maxAgents
             THEN "Agent limit reached"
             ELSE None

----------------------------------------------------------------------------
(* The engines of the agents *)

\* the most HeartbeatEngine objects built for agents in one run
MaxEngines == 3

\* heartbeat: null in an AgentEntry
NoEngine == 0

\* new HeartbeatEngine(wallet, connection, intervalMs)
NewEngine == [running |-> FALSE, handle |-> FALSE, timers |-> 0, cycleNumber |-> 0]

\* HeartbeatEngine.start() applied to the engine e: the first cycle at once,
\* then a new interval timer
Started(e) ==
    LET r == RunCycle([e EXCEPT !.running = TRUE])
    IN  [r.engine EXCEPT !.handle = TRUE, !.timers = @ + 1]

\* the bounds on the timers and cycles of one engine
CanStart(e) == e.timers < MaxTimers /\ e.cycleNumber < MaxCycles

\* a sackAgent call that has not begun; of one in flight, the id and the
\* engine of the entry it read before recallFunds
NoSack == [pc |-> "new", agentId |-> None, heartbeat |-> NoEngine]

\* no engine built yet
FleetInit == fleet = [engines |-> << >>, sack |-> NoSack]

\* an AgentEntry whose heartbeat is a reference to an engine, or null
FleetEntry(wallet, heartbeat, active) ==
    [ agentId |-> wallet.agentId, role |-> wallet.role,
      heartbeat |-> heartbeat, active |-> active ]

\* the engines with a new one, started
WithStartedEngine == Append(fleet.engines, Started(NewEngine))

\* spawn(request) from its entry to AgentWallet.create: the role and tier
\* checks and the count of the user's agents
Spawn(k, request) ==
    /\ k = Len(factory.calls) + 1
    /\ LET refusal == SpawnRefusal(request)
           call == [ NoSpawn EXCEPT !.userId = request.userId, !.tier = request.tier,
                                    !.role = request.roleKey ]
       IN  factory' = [factory EXCEPT
             !.calls = Append(@,
                 IF refusal # None
                 THEN [call EXCEPT !.pc = "failed", !.error = refusal]
                 ELSE [call EXCEPT !.pc = "create",
                          !.agentId = SpawnedAgentId(request.userId, request.customName)])]
    /\ UNCHANGED <<coreVars, stream, trail, fleet>>

\* AgentWallet.create returns to the spawn call k: the engine is built and
\* started, the agent is pushed to spawnedAgents, and spawn returns to the
\* route, which goes on to AgentWallet.load
SpawnWalletCreated(k) ==
    /\ k \in DOMAIN factory.calls
    /\ factory.calls[k].pc = "create"
    /\ Len(fleet.engines) < MaxEngines
    /\ fleet' = [fleet EXCEPT !.engines = WithStartedEngine]
    /\ LET c == factory.calls[k]
       IN  factory' = [factory EXCEPT
             !.spawnedAgents = Append(@, [ agentId |-> c.agentId, role |-> c.role,
                                           tier |-> c.tier, spawnedBy |-> c.userId ]),
             !.calls[k].pc = "load"]
    /\ UNCHANGED <<coreVars, stream, trail>>

\* AgentWallet.create throws: spawn throws, the route answers 400
SpawnWalletFails(k) ==
    /\ k \in DOMAIN factory.calls
    /\ factory.calls[k].pc = "create"
    /\ factory' = [factory EXCEPT !.calls[k].pc = "failed",
                                  !.calls[k].error = "wallet"]
    /\ UNCHANGED <<coreVars, stream, trail, fleet>>

\* AgentWallet.load returns to the route of the spawn call k, or throws:
\* the wallet is registered with the default options, which start no
\* heartbeat
RouteLoadReturns(k, loaded) ==
    /\ k \in DOMAIN factory.calls
    /\ factory.calls[k].pc = "load"
    /\ LET c == factory.calls[k]
           wallet == [agentId |-> c.agentId, role |-> c.role]
       IN  /\ loaded => (c.agentId \in Registered \/ Len(agents) < MaxAgents)
           /\ agents' = IF loaded THEN Assigned(FleetEntry(wallet, NoEngine, FALSE))
                         ELSE agents
    /\ factory' = [factory EXCEPT !.calls[k].pc = "done"]
    /\ UNCHANGED <<govVars, dcaVars, walletOps, hbVars, calls, nCalls, stream, trail, fleet>>

\* registerAgent(wallet, options) with the engine as an object
FleetRegisterAgent(wallet, options) ==
    /\ wallet.agentId \in Registered \/ Len(agents) < MaxAgents
    /\ IF options.startHeartbeat
       THEN /\ Len(fleet.engines) < MaxEngines
            /\ fleet' = [fleet EXCEPT !.engines = WithStartedEngine]
            /\ agents' = Assigned(FleetEntry(wallet, Len(fleet.engines) + 1, TRUE))
       ELSE /\ agents' = Assigned(FleetEntry(wallet, NoEngine, FALSE))
            /\ UNCHANGED fleet
    /\ UNCHANGED <<govVars, dcaVars, walletOps, hbVars, calls, nCalls, stream, trail, factory>>

\* activateAgent(agentId) of a registered agent: start() on the engine of
\* the entry, or on a new one
FleetActivateAgent(agentId) ==
    /\ agentId \in Registered
    /\ LET i == IndexOf(agentId)
           h == agents[i].heartbeat
       IN  IF h # NoEngine
           THEN /\ CanStart(fleet.engines[h])
                /\ fleet' = [fleet EXCEPT !.engines[h] = Started(@)]
                /\ agents' = [agents EXCEPT ![i].active = TRUE]
           ELSE /\ Len(fleet.engines) < MaxEngines
                /\ fleet' = [fleet EXCEPT !.engines = WithStartedEngine]
                /\ agents' = [agents EXCEPT ![i].active = TRUE,
                                            ![i].heartbeat = Len(fleet.engines) + 1]
    /\ UNCHANGED <<govVars, dcaVars, walletOps, hbVars, calls, nCalls, stream, trail, factory>>

\* sleepAgent(agentId) of a registered agent: stop() on the engine of the entry
FleetSleepAgent(agentId) ==
    /\ agentId \in Registered
    /\ LET i == IndexOf(agentId)
           h == agents[i].heartbeat
       IN  /\ fleet' = IF h # NoEngine
                       THEN [fleet EXCEPT !.engines[h] = HBStopped(@)]
                       ELSE fleet
           /\ agents' = [agents EXCEPT ![i].active = FALSE]
    /\ UNCHANGED <<govVars, dcaVars, walletOps, hbVars, calls, nCalls, stream, trail, factory>>

\* haltAll(reason): haltAgent on every key of the registry
HaltAll ==
    /\ agents' = [i \in DOMAIN agents |-> [agents[i] EXCEPT !.active = FALSE]]
    /\ UNCHANGED <<calls, nCalls>>
    /\ UNCHANGED otherThanOrch

\* sackAgent(agentId) from its entry into recallFunds: it keeps the entry
\* it read
FleetSackAgent(agentId) ==
    /\ fleet.sack.pc = "new"
    /\ fleet' = [fleet EXCEPT !.sack =
                   IF agentId \in PROTECTED \/ agentId \notin Registered
                   THEN [NoSack EXCEPT !.pc = "refused", !.agentId = agentId]
                   ELSE [ pc |-> "recall", agentId |-> agentId,
                          heartbeat |-> agents[IndexOf(agentId)].heartbeat ]]
    /\ UNCHANGED <<coreVars, stream, trail, factory>>

\* recallFunds returns to sackAgent, with any result: stop() on the engine
\* of the entry read at the entry of the call, and delete this.agents[agentId]
FleetSackResumes ==
    /\ fleet.sack.pc = "recall"
    /\ LET h == fleet.sack.heartbeat
       IN  fleet' = [fleet EXCEPT
                       !.sack.pc = "done",
                       !.engines = IF h # NoEngine THEN [@ EXCEPT ![h] = HBStopped(@)] ELSE @]
    /\ agents' = Deleted(fleet.sack.agentId)
    /\ UNCHANGED <<govVars, dcaVars, walletOps, hbVars, calls, nCalls, stream, trail, factory>>

\* an interval timer of the engine h fires: runCycle
FleetTimerFires(h) ==
    /\ h \in DOMAIN fleet.engines
    /\ fleet.engines[h].timers > 0
    /\ fleet.engines[h].running
    /\ fleet.engines[h].cycleNumber < MaxCycles
    /\ fleet' = [fleet EXCEPT !.engines[h] = RunCycle(@).engine]
    /\ UNCHANGED <<coreVars, stream, trail, factory>>

\* the stream, a strategy, the factory and the engines after their construction
ServicesInit == StreamInit /\ TrailInit /\ FactoryInit /\ FleetInit

----------------------------------------------------------------------------
(* Specifications *)

\* the Governor an agent is given and nothing calls
GovIdle == GovInit /\ rules = DEFAULT_RULES

\* a DCA strategy that is not started
DCAIdle == DCAInit /\ dcaConfig.maxRounds = 0

\* the state after the construction of the Governor
InitGov ==
    /\ GovInit
    /\ DCAIdle
    /\ HBInit
    /\ OrchInit
    /\ walletOps = << >>
    /\ ServicesInit

\* the state after the construction of the DCA strategy
InitDCA ==
    /\ GovIdle
    /\ DCAInit
    /\ HBInit
    /\ OrchInit
    /\ walletOps = << >>
    /\ ServicesInit

\* the state after the construction of the heartbeat engine
InitHB ==
    /\ GovIdle
    /\ DCAIdle
    /\ HBInit
    /\ OrchInit
    /\ walletOps = << >>
    /\ ServicesInit

\* the state after the construction of the Orchestrator
InitOrch ==
    /\ GovIdle
    /\ DCAIdle
    /\ HBInit
    /\ OrchInit
    /\ walletOps = << >>
    /\ ServicesInit

OverlapIds == 1..MaxOverlap

NextGov ==
    \/ \E i \in OverlapIds, a \in Amounts, m \in Mints, b \in Balances,
          s \in Impacts \cup {Undefined} : ApproveSwapEnter(i, a, m, b, s)
    \/ \E i \in OverlapIds, p \in Impacts \cup {QuoteFailedImpact} : QuoteReturns(i, p)
    \/ \E i \in OverlapIds, s \in RugScores : RugCheckReturns(i, s)
    \/ \E i \in OverlapIds, a \in Amounts : ApproveTransfer(i, a)
    \/ GetSpendingStatus
    \/ \E u \in RuleUpdates : UpdateRules(u)
    \/ \E d \in TickDeltas : Tick(d)

SpecGov == InitGov /\ [][NextGov]_vars

\* the state after the construction of a Governor with rules of its own
InitGate ==
    /\ \E c \in GateCustomRules : NewGovernor(c)
    /\ DCAIdle
    /\ HBInit
    /\ OrchInit
    /\ walletOps = << >>
    /\ ServicesInit

GateIds == 1..MaxGateEvals

\* a caller that awaits each decision before it asks for the next one, as
\* in the usage the Governor documents
AwaitedApproveSwap(i, amountSOL, outputMint, agentBalanceSOL, simulatedPriceImpact) ==
    /\ InFlight = {}
    /\ ApproveSwapEnter(i, amountSOL, outputMint, agentBalanceSOL, simulatedPriceImpact)

AwaitedApproveTransfer(i, amountSOL) ==
    /\ InFlight = {}
    /\ ApproveTransfer(i, amountSOL)

\* the rules may be updated at any time
NextGate ==
    \/ \E i \in GateIds, a \in GateAmounts, m \in GateMints, b \in GateBalances,
          s \in Impacts \cup {Undefined} : AwaitedApproveSwap(i, a, m, b, s)
    \/ \E i \in GateIds, p \in Impacts : QuoteReturns(i, p)
    \/ \E i \in GateIds : QuoteFails(i)
    \/ \E i \in GateIds, s \in RugScores : RugCheckReturns(i, s)
    \/ \E i \in GateIds : RugCheckFails(i)
    \/ \E i \in GateIds, a \in GateAmounts : AwaitedApproveTransfer(i, a)
    \/ \E u \in GateRuleUpdates : UpdateRules(u)

SpecGate == InitGate /\ [][NextGate]_vars

\* the limits of the daily-limit scenario and limits wide enough for its
\* amount
ScenarioRules ==
    { [dailyLimitSOL |-> 2 * SOL],
      [maxSingleTxSOL |-> SOL, maxPositionPct |-> 100] }

InitSequence ==
    /\ \E c \in ScenarioRules : NewGovernor(c)
    /\ DCAIdle
    /\ HBInit
    /\ OrchInit
    /\ walletOps = << >>
    /\ ServicesInit

\* evaluations one after the other, of a balance of 1 SOL, under rules
\* that stay as they are and within one day
NextSequence ==
    \/ \E i \in EvalIds, a \in Amounts, m \in Mints, b \in Balances,
          s \in Impacts \cup {Undefined} : AwaitedApproveSwap(i, a, m, b, s)
    \/ \E i \in EvalIds, p \in Impacts : QuoteReturns(i, p)
    \/ \E i \in EvalIds, s \in RugScores : RugCheckReturns(i, s)
    \/ \E i \in EvalIds, a \in Amounts : AwaitedApproveTransfer(i, a)

SpecSequence == InitSequence /\ [][NextSequence]_vars

RoundIds == 1..MaxRounds

NextDCA ==
    \/ DCAStart
    \/ DCAStop
    \/ \E r \in RoundIds, byCron \in BOOLEAN : ExecuteDCARound(r, byCron)
    \/ \E r \in RoundIds, b \in DCABalances : DCABalanceReturns(r, b)
    \/ \E r \in RoundIds, f \in BOOLEAN : DCASimulationReturns(r, f)
    \/ \E r \in RoundIds : DCASwapReturns(r)
    \/ \E r \in RoundIds : DCARoundThrows(r)

SpecDCA == InitDCA /\ [][NextDCA]_vars

CycleIds == 1..MaxCycles

AllReasonings == UNION { Reasonings(b) : b \in HBBalances }

NextHB ==
    \/ HBStart
    \/ HBStop
    \/ HBTimerFires
    \/ \E c \in CycleIds, b \in HBBalances : HBBalanceReturns(c, b)
    \/ \E c \in CycleIds : HBBalanceThrows(c)
    \/ \E c \in CycleIds : HBPriceReturns(c)
    \/ \E c \in CycleIds, r \in AllReasonings : HBReasonReturns(c, r)
    \/ \E d \in DirectiveSets : EditHeartbeatFile(d)

SpecHB == InitHB /\ [][NextHB]_vars

\* the inputs that decide how a cycle ends: an emergency stop or none, a
\* balance, and a reasoning with a plan or without a list of actions
LiveDirectives == { DefaultDirectives, [DefaultDirectives EXCEPT !.emergencyStop = TRUE] }

LiveReasonings ==
    { RuleBasedReasoning(SOL), [iterable |-> FALSE, plannedActions |-> << >>] }

NextHBLive ==
    \/ HBStart
    \/ HBStop
    \/ HBTimerFires
    \/ \E c \in CycleIds : HBBalanceReturns(c, SOL)
    \/ \E c \in CycleIds : HBBalanceThrows(c)
    \/ \E c \in CycleIds : HBPriceReturns(c)
    \/ \E c \in CycleIds, r \in LiveReasonings : HBReasonReturns(c, r)
    \/ \E d \in LiveDirectives : EditHeartbeatFile(d)

\* every await of a cycle ends: the balance query returns or throws, the
\* price query returns, the reasoning returns
AwaitsEnd ==
    \A c \in CycleIds :
        /\ WF_vars(HBBalanceReturns(c, SOL) \/ HBBalanceThrows(c))
        /\ WF_vars(HBPriceReturns(c))
        /\ WF_vars(\E r \in LiveReasonings : HBReasonReturns(c, r))

SpecHBLive == InitHB /\ [][NextHBLive]_vars /\ AwaitsEnd

CallIds == 1..MaxCalls

NextOrch ==
    \/ \E w \in Wallets, o \in RegisterOptions : RegisterAgent(w, o)
    \/ \E a \in AgentIds : ActivateAgent(a)
    \/ \E a \in AgentIds : SleepAgent(a)
    \/ \E a \in AgentIds : HaltAgent(a)
    \/ \E a \in AgentIds : RemoveAgent(a)
    \/ \E k \in CallIds, a \in AgentIds : RecallFunds(k, a)
    \/ \E k \in CallIds, a \in AgentIds : SackAgent(k, a)
    \/ \E k \in CallIds, b \in AgentBalances : RecallBalanceReturns(k, b)
    \/ \E k \in CallIds, sent \in BOOLEAN : RecallSendReturns(k, sent)
    \/ \E k \in CallIds : CallRejects(k)
    \/ \E k \in CallIds, a \in AgentIds : SackRoute(k, a)
    \/ \E k \in CallIds, b \in AgentBalances : RouteBalanceReturns(k, b)
    \/ \E k \in CallIds : RouteSendReturns(k)
    \/ \E k \in CallIds : RouteThrows(k)

SpecOrch == InitOrch /\ [][NextOrch]_vars

\* registrations and sackAgent calls: the agents are registered, put to
\* sleep and sacked
NextSack ==
    \/ \E w \in Wallets, o \in RegisterOptions : RegisterAgent(w, o)
    \/ \E a \in AgentIds : SleepAgent(a)
    \/ \E k \in CallIds, a \in AgentIds : SackAgent(k, a)
    \/ \E k \in CallIds, b \in AgentBalances : RecallBalanceReturns(k, b)
    \/ \E k \in CallIds, sent \in BOOLEAN : RecallSendReturns(k, sent)
    \/ \E k \in CallIds : CallRejects(k)

SpecSack == InitOrch /\ [][NextSack]_vars

\* the movements of capital between the vault and agents on standby
NextCapital ==
    \/ \E w \in Wallets : RegisterAgent(w, [startHeartbeat |-> FALSE])
    \/ \E a \in AgentIds : RemoveAgent(a)
    \/ \E k \in CallIds, a \in AgentIds : RecallFunds(k, a)
    \/ \E k \in CallIds, a \in AgentIds : SackAgent(k, a)
    \/ \E k \in CallIds, b \in AgentBalances : RecallBalanceReturns(k, b)
    \/ \E k \in CallIds, sent \in BOOLEAN : RecallSendReturns(k, sent)
    \/ \E k \in CallIds : CallRejects(k)
    \/ \E k \in CallIds, s \in {"equal", "role_based"} : DistributeCapital(k, s)
    \/ \E k \in CallIds, b \in VaultBalances : DistributeBalanceReturns(k, b)
    \/ \E k \in CallIds, sent \in BOOLEAN : DistributeSendReturns(k, sent)

SpecCapital == InitOrch /\ [][NextCapital]_vars

\* the Orchestrator with one agent, its engine and its strategy: the file
\* is edited between the default and the emergency stop, the wallet holds
\* 1 SOL and the swaps are feasible
NextSwarm ==
    \/ \E o \in RegisterOptions : SwarmRegisterAgent(o)
    \/ \E a \in {DcaWallet.agentId, UnknownId} : SwarmActivateAgent(a)
    \/ \E a \in {DcaWallet.agentId, UnknownId} : SwarmSleepAgent(a)
    \/ SwarmStartDca
    \/ SwarmTimerFires
    \/ \E c \in CycleIds : HBBalanceReturns(c, SOL)
    \/ \E c \in CycleIds : HBPriceReturns(c)
    \/ \E c \in CycleIds : HBReasonReturns(c, RuleBasedReasoning(SOL))
    \/ \E d \in { DefaultDirectives, [DefaultDirectives EXCEPT !.emergencyStop = TRUE] } :
          EditHeartbeatFile(d)
    \/ \E r \in RoundIds : ExecuteDCARound(r, TRUE)
    \/ \E r \in RoundIds : DCABalanceReturns(r, SOL)
    \/ \E r \in RoundIds : DCASimulationReturns(r, TRUE)
    \/ \E r \in RoundIds : DCASwapReturns(r)

SpecSwarm == InitOrch /\ [][NextSwarm]_vars

\* the ThoughtStream alone: handlers are attached, thoughts are published by
\* agents and by handlers
NextStream ==
    \/ Subscribe
    \/ Think
    \/ \E publishes \in BOOLEAN : HandlerRuns(publishes)

SpecStream == InitOrch /\ [][NextStream]_vars

\* the agent of the fleet: spawned through the route, registered by the
\* Orchestrator, or both
FleetWallets == { [agentId |-> "demo_use_a", role |-> "dca_agent"] }

FleetIds == { w.agentId : w \in FleetWallets }

\* the request that spawns it
FleetRequests ==
    { r \in SpawnRequests : /\ r.userId = "demo_user" /\ r.customName = "a"
                            /\ r.roleKey = "dca_agent" /\ r.tier = "free" }

\* the spawn calls of the fleet
FleetSpawnIds == { k \in SpawnIds : k < MaxSpawns - 1 }

\* the spawn route, the Orchestrator's lifecycle methods and the timers of
\* the engines
NextFleet ==
    \/ \E k \in FleetSpawnIds, r \in FleetRequests : Spawn(k, r)
    \/ \E k \in FleetSpawnIds : SpawnWalletCreated(k)
    \/ \E k \in FleetSpawnIds : SpawnWalletFails(k)
    \/ \E k \in FleetSpawnIds, loaded \in BOOLEAN : RouteLoadReturns(k, loaded)
    \/ \E w \in FleetWallets, o \in RegisterOptions : FleetRegisterAgent(w, o)
    \/ \E id \in FleetIds : FleetActivateAgent(id)
    \/ \E id \in FleetIds : FleetSleepAgent(id)
    \/ \E id \in FleetIds : HaltAgent(id)
    \/ HaltAll
    \/ \E id \in FleetIds \cup {"risk_manager_01"} : FleetSackAgent(id)
    \/ FleetSackResumes
    \/ \E h \in 1..MaxEngines : FleetTimerFires(h)

SpecFleet == InitOrch /\ [][NextFleet]_vars

\* the AgentFactory alone: overlapping spawn calls
NextFactory ==
    \/ \E k \in SpawnIds, r \in SpawnRequests : Spawn(k, r)
    \/ \E k \in SpawnIds : SpawnWalletCreated(k)
    \/ \E k \in SpawnIds : SpawnWalletFails(k)

SpecFactory == InitOrch /\ [][NextFactory]_vars

\* a TrailingStopStrategy alone
NextTrail ==
    \/ TrailStart
    \/ \E p \in TrailPrices : TrailStartPriceReturns(p)
    \/ TrailStartPriceFails
    \/ TrailStop
    \/ \E c \in CheckIds : TrailTimerFires(c)
    \/ \E c \in CheckIds, p \in TrailPrices : TrailPriceReturns(c, p)
    \/ \E c \in CheckIds : TrailPriceFails(c)
    \/ \E c \in CheckIds, b \in TokenBalances : TrailBalanceReturns(c, b)
    \/ \E c \in CheckIds : TrailSwapReturns(c)
    \/ \E c \in CheckIds : TrailSwapThrows(c)

SpecTrail == InitOrch /\ [][NextTrail]_vars

----------------------------------------------------------------------------
(* Governor: properties *)

RECURSIVE SumAmt(_)
SumAmt(log) == IF log = << >> THEN 0 ELSE Head(log).amt + SumAmt(Tail(log))

\* the approvals committed in the window that started at start
ApprovedInWindow(start) == SelectSeq(approvedLog, LAMBDA a : a.win = start)

\* the approvals made in the 24 hours that end with approval k
ApprovedInDayBefore(k) ==
    LET last == approvedLog[k].t
    IN  SelectSeq(SubSeq(approvedLog, 1, k), LAMBDA a : last - a.t < DayMs)

\* the step returns a decision
Returns == lastDecision'.call # lastDecision.call

\* the step is the entry of an evaluation
Enters == nEvals' # nEvals

\* a returning step reaches the verdict without having suspended
ReturnsAtOnce == Returns /\ evals[lastDecision'.call].pc = "new"

\* the window an evaluation works on at its verdict: the window before the
\* step, after the lazy reset if the step is also the entry of the call
WindowAtVerdict ==
    IF ReturnsAtOnce /\ now - spendingWindow.windowStart >= DayMs
    THEN Window(now, 0)
    ELSE spendingWindow

\* C3: within one spending window the approved amounts sum to at most
\* dailyLimitSOL, and totalSpent is the sum of the window's approvals (each
\* added once), whatever the interleaving of the evaluations.
C3_WindowSumWithinDailyLimit ==
    /\ \A k \in DOMAIN approvedLog :
          SumAmt(ApprovedInWindow(approvedLog[k].win)) <= rules.dailyLimitSOL
    /\ spendingWindow.totalSpent = SumAmt(ApprovedInWindow(spendingWindow.windowStart))

\* C4 as claimed: an approval of amount a leaves totalSpent at its value
\* before the call plus a, and windowStart and the rules as before the call.
C4_ApprovedAddsToTotalBeforeCall ==
    [][ (Returns /\ lastDecision'.approved) =>
          /\ spendingWindow' = Window(lastDecision'.pre.windowStart,
                                      lastDecision'.pre.totalSpent + lastDecision'.amountSOL)
          /\ rules' = rules ]_vars

\* C4 amended: the step that returns an approval of amount a adds exactly a
\* to totalSpent and changes neither windowStart nor the rules, except that
\* a call which reaches its verdict without suspending applies its lazy
\* reset first: 24h or more after windowStart the window becomes (now, a).
C4_ApprovedAddsExactlyAmount ==
    [][ (Returns /\ lastDecision'.approved) =>
          /\ spendingWindow' = Window(WindowAtVerdict.windowStart,
                                      WindowAtVerdict.totalSpent + lastDecision'.amountSOL)
          /\ rules' = rules ]_vars

\* an approval was returned by a call that found the window expired
C4_Witness ==
    /\ lastDecision.approved
    /\ lastDecision.pre.totalSpent > 0
    /\ lastDecision.post.windowStart # lastDecision.pre.windowStart
    /\ lastDecision.post.totalSpent = lastDecision.amountSOL

\* C5 as claimed: a rejected call leaves the spending window exactly as it
\* was before the call, at whatever time the call is made.
C5_RejectedLeavesWindowAsBeforeCall ==
    (lastDecision.call # 0 /\ ~lastDecision.approved) =>
        lastDecision.post = lastDecision.pre

\* C5 amended: the step that returns a rejection adds nothing to totalSpent;
\* the window is left as it was, except that a call which reaches its
\* verdict without suspending applies its lazy reset: 24h or more after
\* windowStart the window becomes (now, 0).
C5_RejectedAddsNothing ==
    [][ (Returns /\ ~lastDecision'.approved) =>
          /\ spendingWindow' = WindowAtVerdict
          /\ rules' = rules ]_vars

\* a rejection was returned by a call that reset the window
C5_Witness ==
    /\ lastDecision.call # 0
    /\ ~lastDecision.approved
    /\ lastDecision.pre.totalSpent > 0
    /\ lastDecision.post = Window(now, 0)
    /\ spendingWindow = lastDecision.post

\* C6: in any 24-hour span the approved amounts sum to at most dailyLimitSOL.
C6_Rolling24hCap ==
    \A k \in DOMAIN approvedLog :
        SumAmt(ApprovedInDayBefore(k)) <= rules.dailyLimitSOL

\* the record an entering evaluation leaves: its suspended call, or the
\* decision it returned at once
Entered ==
    IF evals'[nEvals'].pc \in {"quote", "rug"} THEN evals'[nEvals'] ELSE lastDecision'

\* C7: the window resets lazily and exactly.  An evaluation entered less
\* than 24h after windowStart keeps windowStart and checks the accumulated
\* total plus its amount against the daily limit; one entered 24h or more
\* after windowStart sets the window to (now, 0) first and checks its amount
\* alone; windowStart changes in no step but a consultation (the entry of an
\* evaluation or getSpendingStatus), and only to now with a total of 0.
C7_LazyExactReset ==
    [][ LET expired == now - spendingWindow.windowStart >= DayMs
            total == IF expired THEN 0 ELSE spendingWindow.totalSpent
        IN  /\ Enters =>
                 /\ spendingWindow'.windowStart =
                        IF expired THEN now ELSE spendingWindow.windowStart
                 /\ Entered.projected = total + Entered.amountSOL
                 /\ Entered.checks[2].name = "daily_limit"
                 /\ Entered.checks[2].passed <=>
                        (total + Entered.amountSOL <= rules.dailyLimitSOL)
            /\ spendingWindow'.windowStart # spendingWindow.windowStart =>
                 /\ expired
                 /\ spendingWindow'.windowStart = now
                 /\ now' = now
                 /\ Enters \/ ( /\ spendingWindow'.totalSpent = 0
                                /\ UNCHANGED <<rules, evals, lastDecision, approvedLog>> )
      ]_vars

\* an evaluation was checked against a window that was reset exactly 24h
\* after its start, after an approval in the old window
C7_Witness ==
    /\ spendingWindow.windowStart = DayMs
    /\ now = DayMs
    /\ lastDecision.call # 0
    /\ lastDecision.pre = Window(0, SOL \div 10)
    /\ lastDecision.projected = lastDecision.amountSOL

----------------------------------------------------------------------------
(* Fund movements: properties *)

\* C1: every swap or transfer a wallet carried out was preceded by a Governor
\* evaluation of that action that returned approved = true: each fund
\* movement has its own approval, of its amount, in the Governor's record.
C1_EveryFundMoveApproved ==
    /\ Len(approvedLog) >= Len(walletOps)
    /\ \A k \in DOMAIN walletOps :
          \E j \in DOMAIN approvedLog : approvedLog[j].amt = walletOps[k].amountSOL

----------------------------------------------------------------------------
(* HeartbeatEngine: properties *)

\* the cycles of the engine that have begun and not finished: suspended on
\* an external call
Unfinished == { c \in CycleIds : hbCycles[c].pc \in {"balance", "price", "reason"} }

\* the step publishes a thought of a warning type
Warned == \E k \in DOMAIN published' : published'[k] = "WARN"

\* C2: no cycle of an engine begins while an earlier one has not finished: a
\* tick, or the first cycle of start(), that arrives while a cycle is
\* suspended begins no cycle, and a warning is published for it.
C2_NoCycleBeginsWhileBusy ==
    [][ (Unfinished # {} /\ (HBStart \/ HBTimerFires)) =>
            (hb'.cycleNumber = hb.cycleNumber /\ Warned) ]_vars

\* the step hands a thought of the given type to thoughtStream
Publishes(type) == \E k \in DOMAIN published' : published'[k] = type

\* the step begins a cycle of the engine
BeginsCycle == hb'.cycleNumber # hb.cycleNumber

\* the cycles that read the emergency-stop flag as true
EmergencyStopped == { c \in CycleIds : hbCycles[c].pc = "stopped" }

\* C11: a cycle that reads the emergency-stop flag as true records ALERT,
\* stops its own engine and takes none of the later steps (no balance or
\* price read, no reasoning, no action executed); a cycle that has stopped
\* so never goes on, and the stopped engine begins no further cycle unless
\* start() is called again.
C11_EmergencyStopEndsCycleAndEngine ==
    [][ /\ (BeginsCycle /\ heartbeatFile.emergencyStop) =>
              /\ Publishes("ALERT")
              /\ ~hb'.running
              /\ hbCycles'[hb'.cycleNumber].pc = "stopped"
              /\ hbCycles'[hb'.cycleNumber].actionsTaken = << >>
              /\ ~Publishes("OBSERVE") /\ ~Publishes("THINK")
              /\ ~Publishes("PLAN") /\ ~Publishes("EXECUTE")
              /\ emitted' = << "emergency_stop" >>
        /\ \A c \in EmergencyStopped : hbCycles'[c] = hbCycles[c]
        /\ (EmergencyStopped # {} /\ ~hb.running /\ ~HBStart) => ~BeginsCycle
      ]_vars

\* a cycle has read the flag as true and stopped the engine, and an interval
\* timer of the engine is still alive
C11_Witness ==
    /\ EmergencyStopped # {}
    /\ ~hb.running
    /\ hb.timers > 0
    /\ hb.cycleNumber < MaxCycles

\* the step begins a cycle that reads the flag as true and emits the event
\* emergency_stop
EmitsEmergencyStop ==
    /\ BeginsCycle
    /\ \E k \in DOMAIN emitted' : emitted'[k] = "emergency_stop"

\* C12: once a heartbeat cycle observes EMERGENCY_STOP: true all agent
\* activity is halted: no engine of a registered agent is left running and
\* no scheduled task of a strategy is left alive to execute a further swap.
C12_EmergencyStopHaltsAllActivity ==
    [][ EmitsEmergencyStop =>
            /\ \A i \in DOMAIN agents' : agents'[i].heartbeat # "running"
            /\ ~hb'.running
            /\ ~dcaState'.active
            /\ dcaState'.tasks = 0 ]_vars

\* the cycles that the step takes into the catch block of runCycle
Caught == { c \in CycleIds : hbCycles[c].pc # "failed" /\ hbCycles'[c].pc = "failed" }

\* C13: when a step of a cycle after WAKE throws, the cycle record is sealed
\* (its end time set) with decision alert, an ERROR thought is recorded, and
\* the engine is left as it was, running, for the next timer tick.
C13_ThrowSealsCycleWithAlert ==
    [][ \A c \in Caught :
            /\ hbCycles'[c].ended
            /\ hbCycles'[c].decision = "alert"
            /\ Publishes("ERROR")
            /\ hb' = hb ]_vars

\* C14: after stop() returns the engine begins no new cycle until start()
\* is called again, whatever timers earlier start() calls left alive and
\* whether or not a cycle was in flight.
C14_StoppedEngineBeginsNoCycle ==
    [][ /\ HBStop => (~hb'.running /\ ~BeginsCycle)
        /\ (~hb.running /\ ~HBStart) => ~BeginsCycle ]_vars

\* stop() has been called with a cycle in flight and has left alive a timer
\* of an earlier start()
C14_Witness ==
    /\ ~hb.running
    /\ hb.timers > 0
    /\ Unfinished # {}
    /\ EmergencyStopped = {}
    /\ heartbeatFile = DefaultDirectives

----------------------------------------------------------------------------
(* Orchestrator: properties *)

\* the ids in the registry after the step
RegisteredNext == { agents'[i].agentId : i \in DOMAIN agents' }

\* C8: across the operations of the Orchestrator, a protected agent id that
\* is in the registry is never removed from it.
C8_ProtectedNeverRemoved ==
    [][ \A id \in PROTECTED : id \in Registered => id \in RegisteredNext ]_vars

\* the distributeCapital calls that have read the vault's balance
DistributeReads ==
    { k \in CallIds : calls[k].op = "distribute" /\ calls[k].balance # Undefined }

\* what the distributeCapital call k has sent so far: its totalSent
Distributed(k) ==
    IF calls[k].pc = "done" THEN calls[k].amount ELSE calls[k].totalSent

\* C9: for every registry and either weighting, the amounts one
\* distributeCapital call sends sum to at most vaultBalance - 0.1 SOL.
C9_DistributedWithinReserve ==
    \A k \in DistributeReads :
        Distributed(k) <= Max(0, calls[k].balance - ReserveSOL)

\* the recallFunds calls, made directly or by sackAgent, that have read the
\* balance of the agent's wallet
RecallReads ==
    { k \in CallIds : calls[k].op \in {"recall", "sack"} /\ calls[k].balance # Undefined }

\* recallFunds has returned failure to the call k and has handed no transfer
\* to sendSOL
FailedCleanly(k) ==
    /\ calls[k].pc = "done"
    /\ ~calls[k].attempted
    /\ calls[k].amount = 0
    /\ calls[k].op = "recall" => ~calls[k].success

\* the amount recallFunds hands to sendSOL leaves the gas reserve in the
\* wallet whose balance it read
LeavesGasReserve(k) ==
    calls[k].amount <= Max(0, calls[k].balance - GasReserve)

\* C10 as stated: recallFunds never sends an amount that leaves the wallet
\* below the gas reserve of 0.002 SOL, and whenever balance <= 0.003 SOL it
\* returns failure without attempting a transfer.
C10_FailsAtOrBelowReservePlusDust ==
    \A k \in RecallReads :
        /\ LeavesGasReserve(k)
        /\ calls[k].balance <= GasReserve + RecallDust => FailedCleanly(k)

\* C10, amended: recallFunds never hands sendSOL more than the balance it
\* read less the gas reserve of 0.002 SOL, and whenever that balance is
\* below 0.003 SOL it returns failure without attempting a transfer.
C10_FailsBelowReservePlusDust ==
    \A k \in RecallReads :
        /\ LeavesGasReserve(k)
        /\ calls[k].balance < GasReserve + RecallDust => FailedCleanly(k)

\* recallFunds has read a balance of exactly 0.003 SOL and has sent the
\* 0.001 SOL over the gas reserve to the vault
C10_Witness ==
    \E k \in RecallReads :
        /\ calls[k].op = "recall"
        /\ calls[k].pc = "done"
        /\ calls[k].balance = GasReserve + RecallDust
        /\ calls[k].success
        /\ calls[k].attempted
        /\ calls[k].amount = RecallDust

\* the entry of the agent whose engine and strategy are modelled
DcaEntry == agents[IndexOf(DcaWallet.agentId)]

\* the agent is registered and its engine runs: it has been activated, by
\* registerAgent with startHeartbeat or by activateAgent
Activated ==
    /\ DcaWallet.agentId \in Registered
    /\ DcaEntry.active
    /\ hb.running

\* the agent is registered and has been put to sleep
Asleep ==
    /\ DcaWallet.agentId \in Registered
    /\ ~DcaEntry.active
    /\ ~hb.running
    /\ ~dcaState.active

\* C15: activateAgent and sleepAgent are idempotent: activateAgent on an
\* agent that is already activated leaves the state as it is, one periodic
\* timer drives the cycles of a running engine, sleepAgent on a sleeping
\* agent leaves the state as it is, and on an unknown id both change nothing.
C15_ActivateAndSleepIdempotent ==
    [][ /\ (Activated /\ SwarmActivateAgent(DcaWallet.agentId)) =>
              (hb' = hb /\ hbCycles' = hbCycles /\ agents' = agents)
        /\ hb'.running => hb'.timers = 1
        /\ (Asleep /\ SwarmSleepAgent(DcaWallet.agentId)) =>
              (hb' = hb /\ dcaState' = dcaState /\ agents' = agents)
        /\ (SwarmActivateAgent(UnknownId) \/ SwarmSleepAgent(UnknownId)) =>
              (hb' = hb /\ hbCycles' = hbCycles /\ dcaState' = dcaState /\ agents' = agents)
      ]_vars

\* C16: registerAgent with an id that is already in the registry is
\* rejected: the existing entry is left unchanged.
C16_DuplicateRegistrationRejected ==
    [][ \A w \in Wallets, o \in RegisterOptions :
            (w.agentId \in Registered /\ RegisterAgent(w, o)) => agents' = agents ]_vars

\* the step in which the sackAgent call k, past its guards, returns or is
\* rejected
SackEnds(k) ==
    /\ calls[k].op = "sack"
    /\ calls[k].pc \in {"balance", "send"}
    /\ calls'[k].pc = "done"

\* C17: sackAgent on a registered, non-protected id always ends with the id
\* removed from the registry, whatever the recall did: succeeded, found
\* too little to recall, failed in the transfer or failed in the balance
\* query.
C17_SackAlwaysRemoves ==
    [][ \A k \in CallIds : SackEnds(k) => calls[k].agentId \notin RegisteredNext ]_vars

\* C18: sackAgent called with a protected id returns failure at once: it
\* makes no wallet call (no balance query, no transfer), stops no heartbeat
\* and leaves the registry unchanged.
C18_SackOfProtectedRefused ==
    [][ \A k \in CallIds, id \in PROTECTED :
            SackAgent(k, id) =>
                /\ calls'[k].pc = "done"
                /\ ~calls'[k].success
                /\ ~calls'[k].attempted
                /\ calls'[k].balance = Undefined
                /\ agents' = agents ]_vars

\* sackAgent has refused a protected id that is registered with a running
\* heartbeat
C18_Witness ==
    /\ \E k \in CallIds :
          /\ calls[k].op = "sack"
          /\ calls[k].pc = "done"
          /\ calls[k].error = "Protected agent cannot be sacked"
    /\ \E i \in DOMAIN agents :
          /\ agents[i].agentId = "risk_manager_01"
          /\ agents[i].heartbeat = "running"

\* C19: recallFunds called with a protected id returns failure with no
\* transfer attempted: no funds leave a protected agent's wallet.
C19_NoRecallFromProtected ==
    [][ \A k \in CallIds, id \in PROTECTED :
            RecallFunds(k, id) =>
                /\ calls'[k].pc = "done"
                /\ ~calls'[k].success
                /\ ~calls'[k].attempted ]_vars

\* C20: distributeCapital sends capital only to non-protected registered
\* agents: no transfer is made to a protected id.
C20_NoCapitalToProtected ==
    \A k \in CallIds :
        calls[k].op = "distribute" => calls[k].distributed \cap PROTECTED = {}

\* the role of a registered agent
RoleOf(agentId) == agents[IndexOf(agentId)].role

\* amount is distributable x weight rounded down to 0.0001 SOL: not above
\* the product and less than one step below it
RoundedDown(strategy, distributable, role, length, amount) ==
    IF strategy = "equal"
    THEN /\ amount * length <= distributable
         /\ distributable < (amount + FixedStep) * length
    ELSE /\ amount * 100 <= distributable * RoleWeightPct(role)
         /\ distributable * RoleWeightPct(role) < (amount + FixedStep) * 100

\* the step in which the distributeCapital call k reads the vault's balance
\* and fixes the amounts it hands to sendSOL
FixesAmounts(k) ==
    /\ calls[k].op = "distribute"
    /\ calls[k].pc = "balance"
    /\ calls'[k].pc = "send"

\* C21: each amount distributeCapital sends equals distributable x weight
\* rounded down to four decimals, never rounded up.
C21_AmountsRoundedDown ==
    [][ \A k \in CallIds : FixesAmounts(k) =>
            \A i \in DOMAIN calls'[k].queue :
                RoundedDown(calls[k].strategy,
                            Max(0, calls'[k].balance - ReserveSOL),
                            RoleOf(calls'[k].payees[i]), Len(agents),
                            calls'[k].queue[i]) ]_vars

\* the sum a distributeCapital call has sent so far
SentTotal(c) == IF c.pc = "done" THEN c.amount ELSE c.totalSent

\* the step in which a sendSOL of the distributeCapital call k ends
SendEnds(k) ==
    /\ calls[k].op = "distribute"
    /\ calls[k].pc = "send"
    /\ calls'[k] # calls[k]

\* C22: in distributeCapital a failed transfer to one agent does not stop
\* the transfers to later agents, and the distributed map holds an agent id
\* exactly when the transfer to that agent succeeded.
C22_FailureSkipsOneAgentOnly ==
    [][ \A k \in CallIds : SendEnds(k) =>
            LET c == calls[k]
                d == calls'[k]
                agentId == Head(c.payees)
                succeeded == SentTotal(d) = c.totalSent + Head(c.queue)
            IN  /\ agentId \notin c.distributed
                /\ d.distributed = IF succeeded THEN c.distributed \cup { agentId }
                                                ELSE c.distributed
                /\ IF Tail(c.queue) = << >>
                   THEN d.pc = "done" /\ d.success
                   ELSE /\ d.pc = "send"
                        /\ d.queue = Tail(c.queue)
                        /\ d.payees = Tail(c.payees) ]_vars

\* role-based distribution of 1 SOL: the transfer to risk_manager_01 failed,
\* the later one to dca_agent_01 was made, and the map holds the latter only
C22_Witness ==
    /\ Registered = { "risk_manager_01", "dca_agent_01" }
    /\ agents[1].agentId = "risk_manager_01"
    /\ \E k \in CallIds :
          /\ calls[k].pc = "done"
          /\ calls[k].op = "distribute"
          /\ calls[k].success
          /\ calls[k].balance = 1100000
          /\ calls[k].amount = 400000
          /\ calls[k].distributed = { "dca_agent_01" }

----------------------------------------------------------------------------
(* Governor: properties of one evaluation *)

\* the check list of evaluation i after a step of it: in the decision once
\* the evaluation has returned
ChecksAfter(i) ==
    IF evals'[i].pc = "done" THEN lastDecision'.checks ELSE evals'[i].checks

\* the check of the given name in a check list that holds one
CheckNamed(checks, name) ==
    checks[CHOOSE j \in DOMAIN checks : checks[j].name = name]

\* C23: one approveSwap evaluation uses one rule set throughout: when
\* updateRules is called while it is suspended on the quote or on the risk
\* lookup, the price_impact and rug_score checks are still made, and made
\* against the rules as they were when the evaluation started.
C23_EvaluationUsesRulesAtEntry ==
    [][ \A i \in GateIds :
          /\ \A p \in Impacts : QuoteReturns(i, p) =>
                /\ CheckNamed(ChecksAfter(i), "price_impact").passed
                      = (p <= evals[i].rules.maxPriceImpactPct)
                /\ evals[i].rules.requireRugCheck => evals'[i].pc = "rug"
          /\ \A score \in RugScores : RugCheckReturns(i, score) =>
                CheckNamed(ChecksAfter(i), "rug_score").passed
                  = (score <= evals[i].rules.maxRugScore) ]_vars

\* C24: when approveSwap is given no price impact and the quote provider
\* fails, the evaluation goes on with a price impact of 0: its price_impact
\* check passes, and the outage alone rejects nothing.
C24_QuoteFailureCountsAsZeroImpact ==
    [][ \A i \in GateIds : QuoteFails(i) =>
          CheckNamed(ChecksAfter(i), "price_impact").passed ]_vars

\* C25: with requireRugCheck on and the risk oracle out of reach approveSwap
\* still returns a decision: the rug_score check is made against the
\* fallback assessment and fails only if the fallback score is above
\* maxRugScore.
C25_OracleFailureStillDecides ==
    [][ \A i \in GateIds : RugCheckFails(i) =>
          /\ evals'[i].pc = "done"
          /\ lastDecision'.call = i
          /\ lastDecision'.assessment = "fallback"
          /\ Len(lastDecision'.checks) = Len(evals[i].checks) + 1
          /\ CheckNamed(lastDecision'.checks, "rug_score").passed
                = (FallbackScore <= rules.maxRugScore)
          /\ lastDecision'.approved = AllPassed(lastDecision'.checks) ]_vars

\* a swap approved on the fallback assessment
C25_Witness ==
    /\ lastDecision.kind = "swap"
    /\ lastDecision.assessment = "fallback"
    /\ lastDecision.approved

\* C26: approveSwap with an agent balance of 0 fails position_size and is
\* rejected, whatever the amount: positive, zero or negative.
C26_ZeroBalanceAlwaysRejected ==
    (lastDecision.kind = "swap" /\ lastDecision.agentBalanceSOL = 0) =>
        /\ ~CheckNamed(lastDecision.checks, "position_size").passed
        /\ ~lastDecision.approved

\* the parts a reason is made of
ReasonParts(decision) == { decision.reason[j] : j \in DOMAIN decision.reason }

\* C27: every rejected decision of approveSwap or approveTransfer has a
\* reason that holds the name of each check that failed.
C27_ReasonNamesFailedChecks ==
    (lastDecision.call > 0 /\ ~lastDecision.approved) =>
        \A j \in DOMAIN lastDecision.checks :
            ~lastDecision.checks[j].passed =>
                lastDecision.checks[j].name \in ReasonParts(lastDecision)

\* the amount of the scenario
ScenarioAmount == (8 * SOL) \div 10

\* the limit checks of a decision: the ones that do not depend on the token
LimitChecksPass(decision) ==
    \A j \in DOMAIN decision.checks :
        decision.checks[j].name \in {"single_tx_limit", "daily_limit", "position_size"}
            => decision.checks[j].passed

\* under a single-transaction limit of maxSingleTxSOL and a daily limit of
\* 2 SOL, with a balance of 1 SOL: of three evaluations of 0.8 SOL in a row
\* the first two pass the limits, a transfer is approved, and an approval
\* brings the total to 0.8 and 1.6; the third fails daily_limit on a
\* projected 2.4 and is rejected, the total staying at 1.6
ScenarioHolds(maxSingleTxSOL) ==
    LET d == lastDecision
    IN  ( /\ rules.maxSingleTxSOL = maxSingleTxSOL
          /\ rules.dailyLimitSOL = 2 * SOL
          /\ d.call \in 1..3
          /\ d.amountSOL = ScenarioAmount
          /\ d.pre.totalSpent = (d.call - 1) * ScenarioAmount )
        => IF d.call <= 2
           THEN /\ LimitChecksPass(d)
                /\ d.kind = "transfer" => d.approved
                /\ d.approved => d.post.totalSpent = d.call * ScenarioAmount
           ELSE /\ ~d.approved
                /\ ~CheckNamed(d.checks, "daily_limit").passed
                /\ CheckNamed(d.checks, "single_tx_limit").passed
                /\ d.projected = 3 * ScenarioAmount
                /\ d.post.totalSpent = 2 * ScenarioAmount

\* C28 as stated: with maxSingleTx = 0.5, dailyCap = 2.0 and balance 1.0,
\* of three evaluations of 0.8 in a row the first two are approved (total
\* 1.6) and the third is rejected by the daily limit (2.4 > 2.0), the total
\* staying at 1.6.
C28_ThirdOfThreeRejectedUnderHalfSolLimit == ScenarioHolds(SOL \div 2)

\* C28, amended: the same under maxSingleTx = 1.0 (and maxPositionPct 100),
\* limits that admit an amount of 0.8.
C28_ThirdOfThreeRejectedUnderOneSolLimit == ScenarioHolds(SOL)

\* the third transfer of 0.8 SOL rejected with 1.6 SOL spent
C28_Witness ==
    /\ rules.maxSingleTxSOL = SOL
    /\ lastDecision.call = 3
    /\ lastDecision.kind = "transfer"
    /\ lastDecision.amountSOL = ScenarioAmount
    /\ lastDecision.pre.totalSpent = 2 * ScenarioAmount
    /\ ~lastDecision.approved
    /\ spendingWindow.totalSpent = 2 * ScenarioAmount

\* the names of a check list, in its order
CheckNames(checks) == [j \in DOMAIN checks |-> checks[j].name]

\* the names C29 gives for the rule set r
ExpectedNames(r) ==
    << "single_tx_limit", "daily_limit", "position_size", "blacklist" >>
    \o (IF r.allowedTokens # {} THEN << "whitelist" >> ELSE << >>)
    \o << "price_impact", "rug_score" >>

\* C29: approveSwap runs every check whatever the earlier ones gave: the
\* check list of its decision is single_tx_limit, daily_limit,
\* position_size, blacklist, price_impact, rug_score in this order, with
\* whitelist after blacklist exactly when the allow-list is not empty.
C29_EveryCheckRunsInOrder ==
    lastDecision.kind = "swap" =>
        CheckNames(lastDecision.checks) = ExpectedNames(rules)

\* a swap that failed its first check and still has all seven
C29_Witness ==
    /\ lastDecision.kind = "swap"
    /\ ~lastDecision.checks[1].passed
    /\ rules.allowedTokens # {}
    /\ Len(lastDecision.checks) = 7

\* C30: approveSwap approves admissible tokens only: a deny-listed token is
\* never approved, allow-listed or not; under a non-empty allow-list a token
\* that is not on it is never approved; an empty allow-list excludes
\* nothing.
C30_OnlyAdmissibleTokensApproved ==
    lastDecision.kind = "swap" =>
        LET d == lastDecision
            denied == d.outputMint \in rules.blacklistedTokens
            listed == d.outputMint \in rules.allowedTokens
            others == \A j \in DOMAIN d.checks :
                         d.checks[j].name \notin {"blacklist", "whitelist"}
                             => d.checks[j].passed
        IN  /\ d.approved => ~denied
            /\ d.approved => (rules.allowedTokens = {} \/ listed)
            /\ (rules.allowedTokens = {} /\ ~denied) => (d.approved = others)

\* a token on both lists, rejected by the deny-list alone
C30_Witness ==
    /\ lastDecision.kind = "swap"
    /\ lastDecision.outputMint \in rules.blacklistedTokens
    /\ lastDecision.outputMint \in rules.allowedTokens
    /\ lastDecision.reason = << "Blocked:", "blacklist" >>

----------------------------------------------------------------------------
(* HeartbeatEngine: termination of a cycle *)

\* cycle c is suspended on one of its awaits
CycleInFlight(c) == hbCycles[c].pc \in {"balance", "price", "reason"}

\* cycle c has ended: cycle_complete, cycle_error or the emergency stop
CycleEnded(c) == hbCycles[c].pc \in {"sealed", "failed", "stopped"}

\* C31: every cycle that begins ends, by cycle_complete, by cycle_error or
\* by the return of the emergency stop, also when stop() is called while it
\* is in flight, provided every external call returns or fails; stop()
\* leaves the cycles in flight as they are.
C31_EveryCycleEnds ==
    /\ \A c \in CycleIds : CycleInFlight(c) ~> CycleEnded(c)
    /\ [][ (hb.running /\ ~hb'.running) =>
              \A c \in CycleIds : CycleInFlight(c) => hbCycles'[c] = hbCycles[c] ]_vars

\* a cycle that took its actions and emitted cycle_complete on an engine
\* stopped while the cycle was in flight
C31_Witness ==
    /\ ~hb.running
    /\ emitted # << >>
    /\ emitted[Len(emitted)] = "cycle_complete"
    /\ \E c \in CycleIds : hbCycles[c].pc = "sealed" /\ hbCycles[c].actionsTaken # << >>

----------------------------------------------------------------------------
(* ThoughtStream: history and delivery *)

\* the numbers of the last n thoughts published, oldest first
LastPublished(n) == [j \in 1..n |-> stream.thoughtCounter - n + j]

\* C32: the history never holds more than maxHistory thoughts, and it is
\* exactly the most recently published thoughts in the order of their
\* publication, so that a full history loses its oldest thought to each new one
C32_HistoryIsTheLatestThoughts ==
    /\ Len(stream.thoughts) <= maxHistory
    /\ stream.thoughts =
         LastPublished(IF stream.thoughtCounter < maxHistory
                       THEN stream.thoughtCounter ELSE maxHistory)

\* more thoughts than the history holds were published, one of them from
\* inside a handler
C32_Witness ==
    /\ stream.thoughtCounter > maxHistory
    /\ Len(stream.thoughts) = maxHistory
    /\ stream.emits # << >>
    /\ stream.emits[Len(stream.emits)].id = stream.thoughtCounter
    /\ Len(stream.emits) > 1

\* C33: every handler is called with the thoughts in the order of their
\* publication, that is with increasing ids
C33_HandlersSeeThoughtsInOrder ==
    \A l \in DOMAIN stream.received :
        \A i, j \in 1..Len(stream.received[l]) :
            i < j => stream.received[l][i] < stream.received[l][j]

----------------------------------------------------------------------------
(* Governor: amounts that are not positive *)

\* C34: no request for an amount of zero or less is approved, so that within
\* one spending window totalSpent never decreases
C34_NonPositiveAmountNeverApproved ==
    /\ [](lastDecision.approved => lastDecision.amountSOL > 0)
    /\ [][ spendingWindow'.windowStart = spendingWindow.windowStart =>
              spendingWindow'.totalSpent >= spendingWindow.totalSpent ]_vars

----------------------------------------------------------------------------
(* The engines of the agents: reachability and halted agents *)

\* the engines that an entry of the registry refers to
Referenced == { agents[i].heartbeat : i \in DOMAIN agents }

\* C35: every engine whose timer is running is the heartbeat of an entry of
\* the registry, after registerAgent on an id whose heartbeat runs, after a
\* spawn through the factory, and after sackAgent resumes from its recall
C35_RunningEnginesAreReachable ==
    \A h \in DOMAIN fleet.engines :
        fleet.engines[h].timers > 0 => h \in Referenced

\* C36: an engine begins no cycle while the entry that holds it is inactive:
\* a halted agent runs no cycle until it is activated
C36_HaltedAgentsRunNoCycle ==
    [][ \A i \in DOMAIN agents :
           LET h == agents[i].heartbeat
           IN  ( /\ h # NoEngine
                 /\ ~agents[i].active
                 /\ agents' = agents )
               => fleet'.engines[h].cycleNumber = fleet.engines[h].cycleNumber ]_vars

\* C40: a spawn call that adds an agent leaves its user with no more
\* spawned agents than maxAgents of the tier of its request, also when spawn
\* calls overlap; a spawn call made at the limit throws and adds no agent
C40_SpawnedAgentsWithinTierLimit ==
    [][ /\ \A k \in SpawnIds :
             SpawnWalletCreated(k) =>
                AgentsOf(factory'.spawnedAgents, factory.calls[k].userId)
                    <= TIER_LIMITS[factory.calls[k].tier].maxAgents
        /\ \A k \in SpawnIds, r \in SpawnRequests :
             (Spawn(k, r) /\ UserAgents(r.userId) >= TIER_LIMITS[r.tier].maxAgents)
                => /\ factory'.calls[k].pc = "failed"
                   /\ factory'.spawnedAgents = factory.spawnedAgents ]_vars

----------------------------------------------------------------------------
(* DCAStrategy: the limit on the rounds *)

\* C37: a strategy with maxRounds > 0 has executed at most maxRounds swaps,
\* and no two executions of its history carry the same round number, also
\* when rounds overlap
C37_AtMostMaxRoundsSwaps ==
    dcaConfig.maxRounds > 0 =>
        /\ Len(walletOps) <= dcaConfig.maxRounds
        /\ Len(dcaState.history) <= dcaConfig.maxRounds
        /\ \A i, j \in DOMAIN dcaState.history :
              i # j => dcaState.history[i] # dcaState.history[j]

----------------------------------------------------------------------------
(* TrailingStopStrategy: the stop-loss sell *)

\* C38: the strategy sells at most once per start(): no two sells belong to
\* the same start, whatever checks were suspended when the stop triggered
C38_AtMostOneSellPerStart ==
    \A i, j \in DOMAIN trail.sells :
        i # j => trail.sells[i].start # trail.sells[j].start

\* C39: every sell was triggered by a price that the price API reported and
\* that was at or below the stop derived from a reported peak; no sell was
\* triggered by the 0 of a failed request
C39_SellsOnlyOnObservedDrop ==
    \A i \in DOMAIN trail.sells :
        LET sell == trail.sells[i]
        IN  /\ ~sell.feedFailed
            /\ sell.price \in TrailPrices
            /\ sell.peakPrice \in TrailPrices
            /\ sell.stopPrice = StopPrice(sell.peakPrice)
            /\ sell.price <= sell.stopPrice
====
